---------------------------- MODULE Spec2Model ----------------------------
(***************************************************************************)
(* A model of swh2save: the byte cursor and string registry of             *)
(* swh2save/datafile.py (class Datafile) and the save document of          *)
(* swh2save/savefile.py (the Chunk classes, UnparsedData, Savefile).       *)
(*                                                                         *)
(* Bytes are integers 0..255, a bytes object or a latin1 string is a       *)
(* sequence of them (latin1 maps one byte to one character, so str and     *)
(* bytes have the same model), Python's None is the value None below.      *)
(* Offsets are 0-based as in the source; buf[o+1] is the byte at offset o. *)
(***************************************************************************)
EXTENDS Integers, Sequences, FiniteSets, TLC

VARIABLES
    df,      \* codec specification: the Datafile under test
    wlog,    \* codec specification: what was written, in order (history)
    rlog,    \* codec specification: what was read back, in order (history)
    data,    \* document specification: the bytes of the file being loaded
    save,    \* document specification: the Savefile object
    out,     \* document specification: the result of the last save_to
    edits,   \* document specification: the edits made since the load (history)
    pc       \* where the run stands

vars == <<df, wlog, rlog, data, save, out, edits, pc>>

\* Python's None.  A sequence, so that it compares with every string.
None == <<-1>>

\* v is None, for v a string or an object (which has several attributes)
IsNone(v) == Cardinality(DOMAIN v) = 1 /\ v = None

\* The value of err while no exception has been raised.
NoErr == "ok"

EmptyMap == [x \in {} |-> 0]

\* dict[k] = v
MapPut(m, k, v) == (k :> v) @@ m

\* x = v, then the rest of the function body F with x bound.
Bind(v, F(_)) == F(v)

--------------------------------------------------------------------------
(* StringStorage (datafile.py) *)

COMPRESSED == "COMPRESSED"
EXPANDED   == "EXPANDED"
UNKNOWN    == "UNKNOWN"
StringStorage == {COMPRESSED, EXPANDED, UNKNOWN}

--------------------------------------------------------------------------
(* Datafile: construction and the raw cursor.                              *)
(* One record models the object: buf/pos are the io.BytesIO and its        *)
(* position, data is the retained file content (None in write mode).       *)
(* err holds the exception that ended the current call chain, val the      *)
(* value returned by the last read.  log is a history of the string        *)
(* fields handled, kept for stating properties; the code has no such list. *)

Datafile_init(bytes, do_write) ==
    [ buf  |-> IF do_write THEN <<>> ELSE bytes,
      data |-> IF do_write THEN None ELSE bytes,
      pos  |-> 0,
      string_read_lookup    |-> EmptyMap,
      string_read_seen      |-> {},
      string_write_lookup   |-> EmptyMap,
      num_string_references |-> 0,
      num_string_duplicates |-> 0,
      string_storage        |-> COMPRESSED,
      err |-> NoErr,
      val |-> 0,
      log |-> <<>> ]

Raise(d, e) == [d EXCEPT !.err = e]

seek(d, offset) == [d EXCEPT !.pos = offset]

tell(d) == d.pos

\* io.BytesIO.read(size): a size below zero reads to the end, and a read
\* near the end returns fewer bytes than asked for, without an error.
read(d, size) ==
    IF d.err # NoErr THEN d
    ELSE LET avail == IF Len(d.buf) > d.pos THEN Len(d.buf) - d.pos ELSE 0
             n     == IF size < 0 \/ size > avail THEN avail ELSE size
         IN [d EXCEPT !.val = SubSeq(d.buf, d.pos + 1, d.pos + n),
                      !.pos = d.pos + n]

\* io.BytesIO.write(b) at the current position (overwrites, then extends).
write(d, b) ==
    IF d.err # NoErr THEN d
    ELSE IF d.pos = Len(d.buf)
         THEN [d EXCEPT !.buf = d.buf \o b, !.pos = d.pos + Len(b)]
         ELSE [d EXCEPT !.buf = SubSeq(d.buf, 1, d.pos) \o b
                                  \o SubSeq(d.buf, d.pos + Len(b) + 1, Len(d.buf)),
                        !.pos = d.pos + Len(b)]

getvalue(d) == d.buf

--------------------------------------------------------------------------
(* Fixed-width integers: struct.pack / struct.unpack, little-endian.       *)
(* unpack raises struct.error on a short read, pack on a value out of      *)
(* range (or on None, which the model holds as -1 where an integer field   *)
(* can be unset).                                                          *)

StructError == "struct.error"

\* struct.unpack of the n bytes just read.
unpack(r, n) ==
    IF r.err # NoErr THEN r
    ELSE IF Len(r.val) # n THEN Raise(r, StructError)
    ELSE [r EXCEPT !.val = r.val[1]
                            + (IF n > 1 THEN 256 * r.val[2] ELSE 0)
                            + (IF n > 2 THEN 65536 * r.val[3] + 16777216 * r.val[4]
                                        ELSE 0)]

read_uint8(d) == unpack(read(d, 1), 1)

read_uint16(d) == unpack(read(d, 2), 2)

read_uint32(d) == unpack(read(d, 4), 4)

write_uint8(d, value) ==
    IF d.err # NoErr THEN d
    ELSE IF value < 0 \/ value > 255 THEN Raise(d, StructError)
    ELSE write(d, <<value>>)

write_uint16(d, value) ==
    IF d.err # NoErr THEN d
    ELSE IF value < 0 \/ value > 65535 THEN Raise(d, StructError)
    ELSE write(d, <<value % 256, value \div 256>>)

write_uint32(d, value) ==
    IF d.err # NoErr THEN d
    ELSE IF value < 0 THEN Raise(d, StructError)
    ELSE write(d, <<value % 256, (value \div 256) % 256,
                    (value \div 65536) % 256, value \div 16777216>>)

--------------------------------------------------------------------------
(* Varints *)

RunawayVarint == "Runaway varint detected"

Pow128(k) == CASE k = 0 -> 1 [] k = 1 -> 128 [] k = 2 -> 16384 [] OTHER -> 2097152

\* read_varint_loop with the cap one group too high.
RECURSIVE read_varint_loop_cap5(_, _, _)
read_varint_loop_cap5(d, iter_count, acc) ==
    IF iter_count >= 5 THEN Raise(d, RunawayVarint)
    ELSE Bind(read_uint8(d), LAMBDA r :
            IF r.err # NoErr THEN r
            ELSE IF r.val >= 128
            THEN read_varint_loop_cap5(r, iter_count + 1,
                                       acc + (r.val % 128) * Pow128(iter_count))
            ELSE [r EXCEPT !.val = acc + (r.val % 128) * Pow128(iter_count)])

\* The loop of read_varint from its iter_count-th round on: d is the cursor,
\* acc the value of the groups read so far.
RECURSIVE read_varint_loop(_, _, _)
read_varint_loop(d, iter_count, acc) ==
    IF iter_count >= 4 THEN Raise(d, RunawayVarint)
    ELSE Bind(read_uint8(d), LAMBDA r :
            IF r.err # NoErr THEN r
            ELSE IF r.val >= 128
            THEN read_varint_loop(r, iter_count + 1,
                                  acc + (r.val % 128) * Pow128(iter_count))
            ELSE [r EXCEPT !.val = acc + (r.val % 128) * Pow128(iter_count)])

read_varint(d) ==
    IF d.err # NoErr THEN d ELSE read_varint_loop(d, 0, 0)

\* write_varint shifting by a whole byte instead of seven bits.
RECURSIVE write_varint_shift8(_, _)
write_varint_shift8(d, value) ==
    IF d.err # NoErr THEN d
    ELSE LET rest     == value \div 256
             to_write == (value % 128) + (IF rest > 0 THEN 128 ELSE 0)
             w        == write(d, <<to_write>>)
         IN IF rest = 0 THEN w ELSE write_varint_shift8(w, rest)

RECURSIVE write_varint(_, _)
write_varint(d, value) ==
    IF d.err # NoErr THEN d
    ELSE LET rest     == value \div 128
             to_write == (value % 128) + (IF rest > 0 THEN 128 ELSE 0)
             w        == write(d, <<to_write>>)
         IN IF rest = 0 THEN w ELSE write_varint(w, rest)

--------------------------------------------------------------------------
(* Strings *)

RedirectLength  == "String redirect length doesn't match cached length"
RedirectMissing == "Computed string redirect not found"

Logged(d, e) == [d EXCEPT !.log = Append(d.log, e)]

\* One entry of the history: a string field read or written at offset loc
\* and ending before offset end, with length varint L, second varint D at
\* offset dloc, and the offset sloc of the text it stands for.
Ev(op, kind, loc, L, D, dloc, sloc, val, end) ==
    [op |-> op, kind |-> kind, loc |-> loc, L |-> L, D |-> D,
     dloc |-> dloc, sloc |-> sloc, val |-> val, end |-> end]

\* read_string, second varint zero: the text follows in place.
read_string_data(r2, initial_loc, strlen, second_val_loc) ==
    Bind(read(r2, strlen), LAMBDA r3 :
        Logged([r3 EXCEPT
                  !.string_read_lookup = MapPut(@, tell(r2), r3.val),
                  !.num_string_duplicates =
                      IF r3.val \in r2.string_read_seen THEN @ + 1 ELSE @,
                  !.string_read_seen = @ \cup {r3.val}],
               Ev("read", "first", initial_loc, strlen, 0, second_val_loc,
                  tell(r2), r3.val, tell(r3))))

\* read_string_redirect without the check of the cached length.
read_string_redirect_nolen(r2, initial_loc, strlen, second_val_loc) ==
    LET target_loc == second_val_loc - r2.val
    IN IF target_loc \in DOMAIN r2.string_read_lookup
       THEN Logged([r2 EXCEPT !.num_string_references = @ + 1,
                              !.val = r2.string_read_lookup[target_loc]],
                   Ev("read", "ref", initial_loc, strlen, r2.val, second_val_loc,
                      target_loc, r2.string_read_lookup[target_loc], tell(r2)))
       ELSE Logged(Raise(r2, RedirectMissing),
                   Ev("read", "err", initial_loc, strlen, r2.val, second_val_loc,
                      target_loc, None, tell(r2)))

\* read_string, second varint non-zero: a reference back into the file.
read_string_redirect(r2, initial_loc, strlen, second_val_loc) ==
    LET target_loc == second_val_loc - r2.val
    IN IF target_loc \in DOMAIN r2.string_read_lookup
       THEN IF Len(r2.string_read_lookup[target_loc]) # strlen
            THEN Logged(Raise([r2 EXCEPT !.num_string_references = @ + 1],
                              RedirectLength),
                        Ev("read", "err", initial_loc, strlen, r2.val,
                           second_val_loc, target_loc, None, tell(r2)))
            ELSE Logged([r2 EXCEPT !.num_string_references = @ + 1,
                                   !.val = r2.string_read_lookup[target_loc]],
                        Ev("read", "ref", initial_loc, strlen, r2.val,
                           second_val_loc, target_loc,
                           r2.string_read_lookup[target_loc], tell(r2)))
       ELSE Logged(Raise(r2, RedirectMissing),
                   Ev("read", "err", initial_loc, strlen, r2.val, second_val_loc,
                      target_loc, None, tell(r2)))

\* read_string after its first varint: r1 is the cursor behind the length.
read_string_body(r1, initial_loc) ==
    IF r1.err # NoErr THEN r1
    ELSE IF r1.val = 0
    THEN Logged([r1 EXCEPT !.val = None],
                Ev("read", "absent", initial_loc, 0, 0, initial_loc, initial_loc,
                   None, tell(r1)))
    ELSE Bind(read_varint(r1), LAMBDA r2 :
            IF r2.err # NoErr THEN r2
            ELSE IF r2.val = 0
            THEN read_string_data(r2, initial_loc, r1.val, tell(r1))
            ELSE read_string_redirect(r2, initial_loc, r1.val, tell(r1)))

read_string(d) ==
    IF d.err # NoErr THEN d ELSE read_string_body(read_varint(d), tell(d))

read_chunk_header(d) == read(d, 4)

\* write_string_first recording the offset of the zero byte instead of the
\* offset of the text.
write_string_first_early(w2, loc, value) ==
    Bind(write_uint8(w2, 0), LAMBDA w3 :
        Bind(write([w3 EXCEPT !.string_write_lookup = MapPut(@, value, tell(w2))],
                   value), LAMBDA w5 :
            Logged(w5, Ev("write", "first", loc, Len(value), 0, tell(w2),
                          tell(w3), value, tell(w5)))))

\* write_string, compressed, a string not written before: a zero, a new
\* registry entry at the offset of the text, the text.
write_string_first(w2, loc, value) ==
    Bind(write_uint8(w2, 0), LAMBDA w3 :
        Bind(write([w3 EXCEPT !.string_write_lookup = MapPut(@, value, tell(w3))],
                   value), LAMBDA w5 :
            Logged(w5, Ev("write", "first", loc, Len(value), 0, tell(w2),
                          tell(w3), value, tell(w5)))))

\* write_string after the length varint: w1 is the cursor behind it.
write_string_data(w1, loc, value) ==
    IF w1.err # NoErr THEN w1
    ELSE IF w1.string_storage \in {UNKNOWN, COMPRESSED}
    THEN IF value \in DOMAIN w1.string_write_lookup
         THEN Bind(write_varint([w1 EXCEPT !.string_storage = COMPRESSED],
                                tell(w1) - w1.string_write_lookup[value]),
                   LAMBDA w3 :
                      Logged(w3, Ev("write", "ref", loc, Len(value),
                                    tell(w1) - w1.string_write_lookup[value],
                                    tell(w1), w1.string_write_lookup[value],
                                    value, tell(w3))))
         ELSE write_string_first([w1 EXCEPT !.string_storage = COMPRESSED],
                                 loc, value)
    ELSE Bind(write(write_uint8(w1, 0), value), LAMBDA w5 :
            Logged(w5, Ev("write", "first", loc, Len(value), 0, tell(w1),
                          tell(w1) + 1, value, tell(w5))))

write_string(d, value) ==
    IF d.err # NoErr THEN d
    ELSE IF value = None
    THEN Logged(write_uint8(d, 0),
                Ev("write", "absent", tell(d), 0, 0, tell(d), tell(d), None,
                   tell(d) + 1))
    ELSE write_string_data(write_varint(d, Len(value)), tell(d), value)

write_chunk_header(d, value) ==
    IF d.err # NoErr THEN d
    ELSE IF Len(value) # 4 THEN Raise(d, "AssertionError")
    ELSE write(d, value)

--------------------------------------------------------------------------
(* get_string_storage_guess *)

\* get_string_storage_guess with the two modes exchanged.
get_string_storage_guess_swapped(d) ==
    IF d.num_string_references > 0 /\ d.num_string_duplicates = 0 THEN EXPANDED
    ELSE IF d.num_string_references = 0 /\ d.num_string_duplicates > 0 THEN COMPRESSED
    ELSE UNKNOWN

get_string_storage_guess(d) ==
    IF d.num_string_references > 0 /\ d.num_string_duplicates = 0 THEN COMPRESSED
    ELSE IF d.num_string_references = 0 /\ d.num_string_duplicates > 0 THEN EXPANDED
    ELSE UNKNOWN

--------------------------------------------------------------------------
(* binascii.crc32: the reflected CRC-32 (polynomial EDB88320, initial      *)
(* value and final xor FFFFFFFF).  A 32-bit value is held as its four      *)
(* little-endian bytes, which is also how write_uint32 stores it.          *)

\* a xor b for a, b in 0..15, at [a + 1][b + 1]
XorTable ==
 <<
    <<0, 1, 2, 3, 4, 5, 6, 7, 8, 9, 10, 11, 12, 13, 14, 15>>,
    <<1, 0, 3, 2, 5, 4, 7, 6, 9, 8, 11, 10, 13, 12, 15, 14>>,
    <<2, 3, 0, 1, 6, 7, 4, 5, 10, 11, 8, 9, 14, 15, 12, 13>>,
    <<3, 2, 1, 0, 7, 6, 5, 4, 11, 10, 9, 8, 15, 14, 13, 12>>,
    <<4, 5, 6, 7, 0, 1, 2, 3, 12, 13, 14, 15, 8, 9, 10, 11>>,
    <<5, 4, 7, 6, 1, 0, 3, 2, 13, 12, 15, 14, 9, 8, 11, 10>>,
    <<6, 7, 4, 5, 2, 3, 0, 1, 14, 15, 12, 13, 10, 11, 8, 9>>,
    <<7, 6, 5, 4, 3, 2, 1, 0, 15, 14, 13, 12, 11, 10, 9, 8>>,
    <<8, 9, 10, 11, 12, 13, 14, 15, 0, 1, 2, 3, 4, 5, 6, 7>>,
    <<9, 8, 11, 10, 13, 12, 15, 14, 1, 0, 3, 2, 5, 4, 7, 6>>,
    <<10, 11, 8, 9, 14, 15, 12, 13, 2, 3, 0, 1, 6, 7, 4, 5>>,
    <<11, 10, 9, 8, 15, 14, 13, 12, 3, 2, 1, 0, 7, 6, 5, 4>>,
    <<12, 13, 14, 15, 8, 9, 10, 11, 4, 5, 6, 7, 0, 1, 2, 3>>,
    <<13, 12, 15, 14, 9, 8, 11, 10, 5, 4, 7, 6, 1, 0, 3, 2>>,
    <<14, 15, 12, 13, 10, 11, 8, 9, 6, 7, 4, 5, 2, 3, 0, 1>>,
    <<15, 14, 13, 12, 11, 10, 9, 8, 7, 6, 5, 4, 3, 2, 1, 0>>
 >>

Xor8(a, b) ==
    16 * XorTable[(a \div 16) + 1][(b \div 16) + 1]
        + XorTable[(a % 16) + 1][(b % 16) + 1]

Xor32(x, y) == <<Xor8(x[1], y[1]), Xor8(x[2], y[2]), Xor8(x[3], y[3]), Xor8(x[4], y[4])>>

\* The table of the byte-wise algorithm, at [i + 1] for the byte i: i shifted
\* right eight times, the polynomial xor-ed in after each one shifted out.
CrcTable ==
 <<
    <<0, 0, 0, 0>>, <<150, 48, 7, 119>>, <<44, 97, 14, 238>>, <<186, 81, 9, 153>>,
    <<25, 196, 109, 7>>, <<143, 244, 106, 112>>, <<53, 165, 99, 233>>, <<163, 149, 100, 158>>,
    <<50, 136, 219, 14>>, <<164, 184, 220, 121>>, <<30, 233, 213, 224>>, <<136, 217, 210, 151>>,
    <<43, 76, 182, 9>>, <<189, 124, 177, 126>>, <<7, 45, 184, 231>>, <<145, 29, 191, 144>>,
    <<100, 16, 183, 29>>, <<242, 32, 176, 106>>, <<72, 113, 185, 243>>, <<222, 65, 190, 132>>,
    <<125, 212, 218, 26>>, <<235, 228, 221, 109>>, <<81, 181, 212, 244>>, <<199, 133, 211, 131>>,
    <<86, 152, 108, 19>>, <<192, 168, 107, 100>>, <<122, 249, 98, 253>>, <<236, 201, 101, 138>>,
    <<79, 92, 1, 20>>, <<217, 108, 6, 99>>, <<99, 61, 15, 250>>, <<245, 13, 8, 141>>,
    <<200, 32, 110, 59>>, <<94, 16, 105, 76>>, <<228, 65, 96, 213>>, <<114, 113, 103, 162>>,
    <<209, 228, 3, 60>>, <<71, 212, 4, 75>>, <<253, 133, 13, 210>>, <<107, 181, 10, 165>>,
    <<250, 168, 181, 53>>, <<108, 152, 178, 66>>, <<214, 201, 187, 219>>, <<64, 249, 188, 172>>,
    <<227, 108, 216, 50>>, <<117, 92, 223, 69>>, <<207, 13, 214, 220>>, <<89, 61, 209, 171>>,
    <<172, 48, 217, 38>>, <<58, 0, 222, 81>>, <<128, 81, 215, 200>>, <<22, 97, 208, 191>>,
    <<181, 244, 180, 33>>, <<35, 196, 179, 86>>, <<153, 149, 186, 207>>, <<15, 165, 189, 184>>,
    <<158, 184, 2, 40>>, <<8, 136, 5, 95>>, <<178, 217, 12, 198>>, <<36, 233, 11, 177>>,
    <<135, 124, 111, 47>>, <<17, 76, 104, 88>>, <<171, 29, 97, 193>>, <<61, 45, 102, 182>>,
    <<144, 65, 220, 118>>, <<6, 113, 219, 1>>, <<188, 32, 210, 152>>, <<42, 16, 213, 239>>,
    <<137, 133, 177, 113>>, <<31, 181, 182, 6>>, <<165, 228, 191, 159>>, <<51, 212, 184, 232>>,
    <<162, 201, 7, 120>>, <<52, 249, 0, 15>>, <<142, 168, 9, 150>>, <<24, 152, 14, 225>>,
    <<187, 13, 106, 127>>, <<45, 61, 109, 8>>, <<151, 108, 100, 145>>, <<1, 92, 99, 230>>,
    <<244, 81, 107, 107>>, <<98, 97, 108, 28>>, <<216, 48, 101, 133>>, <<78, 0, 98, 242>>,
    <<237, 149, 6, 108>>, <<123, 165, 1, 27>>, <<193, 244, 8, 130>>, <<87, 196, 15, 245>>,
    <<198, 217, 176, 101>>, <<80, 233, 183, 18>>, <<234, 184, 190, 139>>, <<124, 136, 185, 252>>,
    <<223, 29, 221, 98>>, <<73, 45, 218, 21>>, <<243, 124, 211, 140>>, <<101, 76, 212, 251>>,
    <<88, 97, 178, 77>>, <<206, 81, 181, 58>>, <<116, 0, 188, 163>>, <<226, 48, 187, 212>>,
    <<65, 165, 223, 74>>, <<215, 149, 216, 61>>, <<109, 196, 209, 164>>, <<251, 244, 214, 211>>,
    <<106, 233, 105, 67>>, <<252, 217, 110, 52>>, <<70, 136, 103, 173>>, <<208, 184, 96, 218>>,
    <<115, 45, 4, 68>>, <<229, 29, 3, 51>>, <<95, 76, 10, 170>>, <<201, 124, 13, 221>>,
    <<60, 113, 5, 80>>, <<170, 65, 2, 39>>, <<16, 16, 11, 190>>, <<134, 32, 12, 201>>,
    <<37, 181, 104, 87>>, <<179, 133, 111, 32>>, <<9, 212, 102, 185>>, <<159, 228, 97, 206>>,
    <<14, 249, 222, 94>>, <<152, 201, 217, 41>>, <<34, 152, 208, 176>>, <<180, 168, 215, 199>>,
    <<23, 61, 179, 89>>, <<129, 13, 180, 46>>, <<59, 92, 189, 183>>, <<173, 108, 186, 192>>,
    <<32, 131, 184, 237>>, <<182, 179, 191, 154>>, <<12, 226, 182, 3>>, <<154, 210, 177, 116>>,
    <<57, 71, 213, 234>>, <<175, 119, 210, 157>>, <<21, 38, 219, 4>>, <<131, 22, 220, 115>>,
    <<18, 11, 99, 227>>, <<132, 59, 100, 148>>, <<62, 106, 109, 13>>, <<168, 90, 106, 122>>,
    <<11, 207, 14, 228>>, <<157, 255, 9, 147>>, <<39, 174, 0, 10>>, <<177, 158, 7, 125>>,
    <<68, 147, 15, 240>>, <<210, 163, 8, 135>>, <<104, 242, 1, 30>>, <<254, 194, 6, 105>>,
    <<93, 87, 98, 247>>, <<203, 103, 101, 128>>, <<113, 54, 108, 25>>, <<231, 6, 107, 110>>,
    <<118, 27, 212, 254>>, <<224, 43, 211, 137>>, <<90, 122, 218, 16>>, <<204, 74, 221, 103>>,
    <<111, 223, 185, 249>>, <<249, 239, 190, 142>>, <<67, 190, 183, 23>>, <<213, 142, 176, 96>>,
    <<232, 163, 214, 214>>, <<126, 147, 209, 161>>, <<196, 194, 216, 56>>, <<82, 242, 223, 79>>,
    <<241, 103, 187, 209>>, <<103, 87, 188, 166>>, <<221, 6, 181, 63>>, <<75, 54, 178, 72>>,
    <<218, 43, 13, 216>>, <<76, 27, 10, 175>>, <<246, 74, 3, 54>>, <<96, 122, 4, 65>>,
    <<195, 239, 96, 223>>, <<85, 223, 103, 168>>, <<239, 142, 110, 49>>, <<121, 190, 105, 70>>,
    <<140, 179, 97, 203>>, <<26, 131, 102, 188>>, <<160, 210, 111, 37>>, <<54, 226, 104, 82>>,
    <<149, 119, 12, 204>>, <<3, 71, 11, 187>>, <<185, 22, 2, 34>>, <<47, 38, 5, 85>>,
    <<190, 59, 186, 197>>, <<40, 11, 189, 178>>, <<146, 90, 180, 43>>, <<4, 106, 179, 92>>,
    <<167, 255, 215, 194>>, <<49, 207, 208, 181>>, <<139, 158, 217, 44>>, <<29, 174, 222, 91>>,
    <<176, 194, 100, 155>>, <<38, 242, 99, 236>>, <<156, 163, 106, 117>>, <<10, 147, 109, 2>>,
    <<169, 6, 9, 156>>, <<63, 54, 14, 235>>, <<133, 103, 7, 114>>, <<19, 87, 0, 5>>,
    <<130, 74, 191, 149>>, <<20, 122, 184, 226>>, <<174, 43, 177, 123>>, <<56, 27, 182, 12>>,
    <<155, 142, 210, 146>>, <<13, 190, 213, 229>>, <<183, 239, 220, 124>>, <<33, 223, 219, 11>>,
    <<212, 210, 211, 134>>, <<66, 226, 212, 241>>, <<248, 179, 221, 104>>, <<110, 131, 218, 31>>,
    <<205, 22, 190, 129>>, <<91, 38, 185, 246>>, <<225, 119, 176, 111>>, <<119, 71, 183, 24>>,
    <<230, 90, 8, 136>>, <<112, 106, 15, 255>>, <<202, 59, 6, 102>>, <<92, 11, 1, 17>>,
    <<255, 158, 101, 143>>, <<105, 174, 98, 248>>, <<211, 255, 107, 97>>, <<69, 207, 108, 22>>,
    <<120, 226, 10, 160>>, <<238, 210, 13, 215>>, <<84, 131, 4, 78>>, <<194, 179, 3, 57>>,
    <<97, 38, 103, 167>>, <<247, 22, 96, 208>>, <<77, 71, 105, 73>>, <<219, 119, 110, 62>>,
    <<74, 106, 209, 174>>, <<220, 90, 214, 217>>, <<102, 11, 223, 64>>, <<240, 59, 216, 55>>,
    <<83, 174, 188, 169>>, <<197, 158, 187, 222>>, <<127, 207, 178, 71>>, <<233, 255, 181, 48>>,
    <<28, 242, 189, 189>>, <<138, 194, 186, 202>>, <<48, 147, 179, 83>>, <<166, 163, 180, 36>>,
    <<5, 54, 208, 186>>, <<147, 6, 215, 205>>, <<41, 87, 222, 84>>, <<191, 103, 217, 35>>,
    <<46, 122, 102, 179>>, <<184, 74, 97, 196>>, <<2, 27, 104, 93>>, <<148, 43, 111, 42>>,
    <<55, 190, 11, 180>>, <<161, 142, 12, 195>>, <<27, 223, 5, 90>>, <<141, 239, 2, 45>>
 >>

\* The register after bytes[i..j].  The range is halved, and the first
\* half is computed before the second is entered, so that the depth of the
\* evaluation grows with the logarithm of the length.
RECURSIVE CrcUpdate(_, _, _, _)
CrcUpdate(c, bytes, i, j) ==
    IF i > j THEN c
    ELSE IF i = j
    THEN Xor32(CrcTable[Xor8(c[1], bytes[i]) + 1], <<c[2], c[3], c[4], 0>>)
    ELSE LET mid == CrcUpdate(c, bytes, i, (i + j) \div 2)
         IN  IF Len(mid) = 4 THEN CrcUpdate(mid, bytes, ((i + j) \div 2) + 1, j)
             ELSE mid

crc32(bytes) ==
    Xor32(CrcUpdate(<<255, 255, 255, 255>>, bytes, 1, Len(bytes)),
          <<255, 255, 255, 255>>)

--------------------------------------------------------------------------
(* The record classes of savefile.py.                                      *)
(*                                                                         *)
(* A class whose __init__ is a run of reads into attributes, and whose     *)
(* _write_to is a run of writes of them, is given as those two runs: a     *)
(* sequence of <<attribute, field type>> for __init__ and one for          *)
(* _write_to.  ReadT and WriteT carry the runs out against a Datafile.  An *)
(* object is a record of its attributes, a list a sequence, a tuple a      *)
(* record of its components, a dict the sequence of its <<key, value>>     *)
(* pairs in insertion order.                                               *)

F(name, t) == <<name, t>>

uint8  == [k |-> "uint8"]
uint16 == [k |-> "uint16"]
uint32 == [k |-> "uint32"]
varint == [k |-> "varint"]
string == [k |-> "string"]

\* An item reference of a Loadout.  _get_inventory_item_or_id reads a varint
\* and keeps the InventoryItem registered under that id when there is one,
\* the id otherwise; _write_inventory_item writes the id in both cases, and
\* no code assigns an item's id after its construction.  The attribute is
\* held as the id.
inventory_item == [k |-> "varint"]

\* read(n) / write(b)
Bytes(n) == [k |-> "bytes", n |-> n]

\* A count read with c, then that many e; written as len() and the elements.
ListOf(c, e) == [k |-> "list", c |-> c, e |-> e]

\* for _ in range(n): a fixed number of e, without a count.
Repeat(n, e) == [k |-> "repeat", n |-> n, e |-> e]

\* Values read one after the other and kept together.
Tuple(f) == [k |-> "tuple", f |-> f]

\* A Chunk subclass: the tag, then the attributes.
ChunkOf(tag, f) == [k |-> "chunk", tag |-> tag, f |-> f]

\* A class with a constructor of its own below.
Class(name) == [k |-> "class", name |-> name]

\* A dict filled by d[element.name] = element and written by its values.
DictByName(c, e) == [k |-> "dict_by_name", c |-> c, e |-> e]

\* A dict filled by d[read_string()] = element and written as key, value.
DictItems(c, e) == [k |-> "dict_items", c |-> c, e |-> e]

\* dict[key] = value: a key already present keeps its place.
DictSet(dict, key, value) ==
    IF \E i \in 1..Len(dict) : dict[i][1] = key
    THEN [i \in 1..Len(dict) |->
             IF dict[i][1] = key THEN <<key, value>> ELSE dict[i]]
    ELSE Append(dict, <<key, value>>)

DictHas(dict, key) == \E i \in 1..Len(dict) : dict[i][1] = key

DictGet(dict, key) == dict[CHOOSE i \in 1..Len(dict) : dict[i][1] = key][2]

ExpectedChunkHeader == "Expected chunk header"

\* Chunk.__init__ without the comparison.
Chunk_init_unchecked(d, check_header) ==
    Bind(read_chunk_header(d), LAMBDA r :
        IF r.err # NoErr THEN r
        ELSE r)

\* Chunk.__init__
Chunk_init(d, check_header) ==
    Bind(read_chunk_header(d), LAMBDA r :
        IF r.err # NoErr THEN r
        ELSE IF r.val # check_header THEN Raise(r, ExpectedChunkHeader)
        ELSE r)

RECURSIVE ReadT(_, _)
RECURSIVE ReadList(_, _, _, _)
RECURSIVE ReadFields(_, _, _, _)
RECURSIVE ReadDict(_, _, _, _)
RECURSIVE ReadClass(_, _)
RECURSIVE WriteT(_, _, _)
RECURSIVE WriteList(_, _, _, _)
RECURSIVE WriteFields(_, _, _, _)
RECURSIVE WriteDict(_, _, _, _)
RECURSIVE WriteClass(_, _, _)

\* One field read from d; the value is left in val.
ReadT(d, t) ==
    IF d.err # NoErr THEN d
    ELSE CASE t.k = "uint8"  -> read_uint8(d)
           [] t.k = "uint16" -> read_uint16(d)
           [] t.k = "uint32" -> read_uint32(d)
           [] t.k = "varint" -> read_varint(d)
           [] t.k = "string" -> read_string(d)
           [] t.k = "bytes"  -> read(d, t.n)
           [] t.k = "list"   -> Bind(ReadT(d, t.c), LAMBDA r :
                                    IF r.err # NoErr THEN r
                                    ELSE ReadList(r, r.val, t.e, <<>>))
           [] t.k = "repeat" -> ReadList(d, t.n, t.e, <<>>)
           [] t.k = "tuple"  -> ReadFields(d, t.f, 1, EmptyMap)
           [] t.k = "chunk"  -> ReadFields(Chunk_init(d, t.tag), t.f, 1,
                                           [header |-> t.tag])
           [] t.k = "class"  -> ReadClass(d, t.name)
           [] t.k \in {"dict_by_name", "dict_items"} ->
                  Bind(ReadT(d, t.c), LAMBDA r :
                      IF r.err # NoErr THEN r ELSE ReadDict(r, r.val, t, <<>>))

\* for _ in range(n): list.append(<read e>)
ReadList(d, n, e, acc) ==
    IF d.err # NoErr THEN d
    ELSE IF n = 0 THEN [d EXCEPT !.val = acc]
    ELSE Bind(ReadT(d, e), LAMBDA r : ReadList(r, n - 1, e, Append(acc, r.val)))

\* The reads of a run from its i-th on; acc holds the attributes set so far.
ReadFields(d, f, i, acc) ==
    IF d.err # NoErr THEN d
    ELSE IF i > Len(f) THEN [d EXCEPT !.val = acc]
    ELSE Bind(ReadT(d, f[i][2]), LAMBDA r :
            ReadFields(r, f, i + 1, (f[i][1] :> r.val) @@ acc))

\* for _ in range(n): dict[key] = <read e>
ReadDict(d, n, t, acc) ==
    IF d.err # NoErr THEN d
    ELSE IF n = 0 THEN [d EXCEPT !.val = acc]
    ELSE IF t.k = "dict_by_name"
    THEN Bind(ReadT(d, t.e), LAMBDA r :
            IF r.err # NoErr THEN r
            ELSE ReadDict(r, n - 1, t, DictSet(acc, r.val.name, r.val)))
    ELSE Bind(read_string(d), LAMBDA rk :
            Bind(ReadT(rk, t.e), LAMBDA r :
                IF r.err # NoErr THEN r
                ELSE ReadDict(r, n - 1, t, DictSet(acc, rk.val, r.val))))

\* One field written to d.
WriteT(d, t, v) ==
    IF d.err # NoErr THEN d
    ELSE CASE t.k = "uint8"  -> write_uint8(d, v)
           [] t.k = "uint16" -> write_uint16(d, v)
           [] t.k = "uint32" -> write_uint32(d, v)
           [] t.k = "varint" -> write_varint(d, v)
           [] t.k = "string" -> write_string(d, v)
           [] t.k = "bytes"  -> write(d, v)
           [] t.k = "list"   -> WriteList(WriteT(d, t.c, Len(v)), t.e, v, 1)
           [] t.k = "repeat" -> WriteList(d, t.e, v, 1)
           [] t.k = "tuple"  -> WriteFields(d, t.f, 1, v)
           [] t.k = "chunk"  -> WriteFields(write_chunk_header(d, v.header),
                                            t.f, 1, v)
           [] t.k = "class"  -> WriteClass(d, t.name, v)
           [] t.k \in {"dict_by_name", "dict_items"} ->
                  WriteDict(WriteT(d, t.c, Len(v)), t, v, 1)

\* for element in list: <write element>
WriteList(d, e, v, i) ==
    IF d.err # NoErr THEN d
    ELSE IF i > Len(v) THEN d
    ELSE WriteList(WriteT(d, e, v[i]), e, v, i + 1)

\* The writes of a run from its i-th on, of the attributes of v.
WriteFields(d, f, i, v) ==
    IF d.err # NoErr THEN d
    ELSE IF i > Len(f) THEN d
    ELSE WriteFields(WriteT(d, f[i][2], v[f[i][1]]), f, i + 1, v)

\* for value in dict.values() / for key, value in dict.items()
WriteDict(d, t, v, i) ==
    IF d.err # NoErr THEN d
    ELSE IF i > Len(v) THEN d
    ELSE IF t.k = "dict_by_name"
    THEN WriteDict(WriteT(d, t.e, v[i][2]), t, v, i + 1)
    ELSE WriteDict(WriteT(write_string(d, v[i][1]), t.e, v[i][2]), t, v, i + 1)

\* WorldCloudData.MAP_DATA_SIZE
MAP_DATA_SIZE == 10440

\* bytes, n times: b'\x00' * n
Times(b, n) == [i \in 1..n |-> b]

\* WorldCloudData.reveal
WorldCloudData_reveal(self) == [self EXCEPT !.data = Times(0, MAP_DATA_SIZE)]

\* WorldCloudData.hide
WorldCloudData_hide(self) == [self EXCEPT !.data = Times(255, MAP_DATA_SIZE)]

\* class Difficulty, chunk 'Difc'
Difficulty_init ==
    ChunkOf(<<68, 105, 102, 99>>, <<
        F("unknown", uint8), F("settings", Repeat(8, uint32)) >>)

Difficulty_write_to ==
    ChunkOf(<<68, 105, 102, 99>>, <<
        F("unknown", uint8), F("settings", Repeat(8, uint32)) >>)

\* class Imh2, chunk 'imh2'
Imh2_init ==
    ChunkOf(<<105, 109, 104, 50>>, <<
        F("unknown_start", uint8), F("cur_outset", string),
        F("unknown_1", uint32), F("unknown_2", uint32),
        F("days_elapsed", uint32), F("small_unknown_1", uint8),
        F("small_unknown_2", uint8), F("small_unknown_3", uint8),
        F("small_unknown_4", uint8), F("small_unknown_5", uint8),
        F("cur_campaign_state", string), F("small_unknown_6", uint8) >>)

Imh2_write_to ==
    ChunkOf(<<105, 109, 104, 50>>, <<
        F("unknown_start", uint8), F("cur_outset", string),
        F("unknown_1", uint32), F("unknown_2", uint32),
        F("days_elapsed", uint32), F("small_unknown_1", uint8),
        F("small_unknown_2", uint8), F("small_unknown_3", uint8),
        F("small_unknown_4", uint8), F("small_unknown_5", uint8),
        F("cur_campaign_state", string), F("small_unknown_6", uint8) >>)

\* class GameResources, chunk 'GaRe'
GameResources_init ==
    ChunkOf(<<71, 97, 82, 101>>, <<
        F("unknown", uint8), F("fragments", uint32), F("water", uint32) >>)

GameResources_write_to ==
    ChunkOf(<<71, 97, 82, 101>>, <<
        F("unknown", uint8), F("fragments", uint32), F("water", uint32) >>)

\* class Ship, chunk 'Ship'
Ship_init ==
    ChunkOf(<<83, 104, 105, 112>>, <<
        F("unknown", uint8), F("equipped", ListOf(uint8, string)),
        F("item_ids", ListOf(uint8, varint)),
        F("item_sequences", ListOf(uint8, uint32)),
        F("upgrades", ListOf(uint8, string)), F("unknown_b1", uint8),
        F("unknown_b2", uint8), F("unknown_b3", uint8),
        F("unknown_b4", uint8), F("unknown_i1", uint32),
        F("unknown_i2", uint32), F("unknown_s1", uint16) >>)

Ship_write_to ==
    ChunkOf(<<83, 104, 105, 112>>, <<
        F("unknown", uint8), F("equipped", ListOf(uint8, string)),
        F("item_ids", ListOf(uint8, varint)),
        F("item_sequences", ListOf(uint8, uint32)),
        F("upgrades", ListOf(uint8, string)), F("unknown_b1", uint8),
        F("unknown_b2", uint8), F("unknown_b3", uint8),
        F("unknown_b4", uint8), F("unknown_i1", uint32),
        F("unknown_i2", uint32), F("unknown_s1", uint16) >>)

\* class Header, chunk 'Head'
Header_init ==
    ChunkOf(<<72, 101, 97, 100>>, <<
        F("zero_1", uint8), F("unknown_1", uint32), F("zero_2", uint32),
        F("unknown_2", uint32), F("unknown_3", uint8), F("unknown_4", uint8),
        F("unknown_5", uint8), F("unknown_6", uint32),
        F("difficulties", Repeat(2, Difficulty_init)),
        F("cur_location", string), F("cur_region", string),
        F("cur_quest", string), F("crew", ListOf(uint8, string)) >>)

Header_write_to ==
    ChunkOf(<<72, 101, 97, 100>>, <<
        F("zero_1", uint8), F("unknown_1", uint32), F("zero_2", uint32),
        F("unknown_2", uint32), F("unknown_3", uint8), F("unknown_4", uint8),
        F("unknown_5", uint8), F("unknown_6", uint32),
        F("difficulties", Repeat(2, Difficulty_write_to)),
        F("cur_location", string), F("cur_region", string),
        F("cur_quest", string), F("crew", ListOf(uint8, string)) >>)

\* class InventoryItem, chunk 'ItIn'
InventoryItem_init ==
    ChunkOf(<<73, 116, 73, 110>>, <<
        F("unknown_1", uint8), F("id", varint), F("flags", uint32),
        F("name", string), F("unknown_4", uint32), F("used", uint32) >>)

InventoryItem_write_to ==
    ChunkOf(<<73, 116, 73, 110>>, <<
        F("unknown_1", uint8), F("id", varint), F("flags", uint32),
        F("name", string), F("unknown_4", uint32), F("used", uint32) >>)

\* class Loadout, chunk 'CrLo'
Loadout_init ==
    ChunkOf(<<67, 114, 76, 111>>, <<
        F("zero", uint8), F("name", string), F("cur_weapon", inventory_item),
        F("unknown", varint), F("utility_1", inventory_item),
        F("utility_2", inventory_item), F("utility_3", inventory_item),
        F("cur_hat", string), F("used", uint32) >>)

Loadout_write_to ==
    ChunkOf(<<67, 114, 76, 111>>, <<
        F("zero", uint8), F("name", string), F("cur_weapon", inventory_item),
        F("unknown", varint), F("utility_1", inventory_item),
        F("utility_2", inventory_item), F("utility_3", inventory_item),
        F("cur_hat", string), F("used", uint32) >>)

\* class Inventory, chunk 'Inve'
Inventory_init ==
    ChunkOf(<<73, 110, 118, 101>>, <<
        F("unknown_1", uint8), F("last_inventory_id", uint32),
        F("items", ListOf(varint, InventoryItem_init)),
        F("new_items", ListOf(varint, varint)),
        F("unknown_arr_2", ListOf(varint, varint)),
        F("hats", ListOf(varint, string)),
        F("new_hats", ListOf(varint, string)), F("leeway_hat", string),
        F("loadouts", DictByName(uint8, Loadout_init)) >>)

Inventory_write_to ==
    ChunkOf(<<73, 110, 118, 101>>, <<
        F("unknown_1", uint8), F("last_inventory_id", uint32),
        F("items", ListOf(varint, InventoryItem_write_to)),
        F("new_items", ListOf(varint, varint)),
        F("unknown_arr_2", ListOf(varint, varint)),
        F("hats", ListOf(varint, string)),
        F("new_hats", ListOf(varint, string)), F("leeway_hat", string),
        F("loadouts", DictByName(uint8, Loadout_write_to)) >>)

\* class ReDe, chunk 'ReDe'
ReDe_init ==
    ChunkOf(<<82, 101, 68, 101>>, <<
        F("zero", uint8), F("items", ListOf(varint, string)),
        F("unknown", uint32) >>)

ReDe_write_to ==
    ChunkOf(<<82, 101, 68, 101>>, <<
        F("zero", uint8), F("items", ListOf(varint, string)),
        F("unknown", uint32) >>)

\* class LootTableDeck, chunk 'LTde'
LootTableDeck_init ==
    ChunkOf(<<76, 84, 100, 101>>, <<
        F("zero", uint8), F("name", string), F("rede", ReDe_init) >>)

LootTableDeck_write_to ==
    ChunkOf(<<76, 84, 100, 101>>, <<
        F("zero", uint8), F("name", string), F("rede", ReDe_write_to) >>)

\* class LootTableStatus, chunk 'LTma'
LootTableStatus_init ==
    ChunkOf(<<76, 84, 109, 97>>, <<
        F("zero", uint8),
        F("loot_groups", ListOf(varint, Tuple(<<F("loot_group_name", string), F("decks", ListOf(varint, LootTableDeck_init))>>))) >>)

LootTableStatus_write_to ==
    ChunkOf(<<76, 84, 109, 97>>, <<
        F("zero", uint8),
        F("loot_groups", ListOf(varint, Tuple(<<F("loot_group_name", string), F("decks", ListOf(varint, LootTableDeck_write_to))>>))) >>)

\* class LootDeckData, chunk 'LoDD'
LootDeckData_init ==
    ChunkOf(<<76, 111, 68, 68>>, <<
        F("zero", uint8), F("items", ListOf(varint, string)) >>)

LootDeckData_write_to ==
    ChunkOf(<<76, 111, 68, 68>>, <<
        F("zero", uint8), F("items", ListOf(varint, string)) >>)

\* class LootDeckStatus, chunk 'LoDe'
LootDeckStatus_init ==
    ChunkOf(<<76, 111, 68, 101>>, <<
        F("zero", uint8),
        F("decks", ListOf(varint, Tuple(<<F("deck_name", string), F("lodd", LootDeckData_init)>>))),
        F("unknown_1", uint8), F("unknown_2", uint8), F("unknown_3", uint8),
        F("unknown_4", uint8), F("unknown_5", uint8), F("unknown_6", uint8),
        F("unknown_one", uint32) >>)

LootDeckStatus_write_to ==
    ChunkOf(<<76, 111, 68, 101>>, <<
        F("zero", uint8),
        F("decks", ListOf(varint, Tuple(<<F("deck_name", string), F("lodd", LootDeckData_write_to)>>))),
        F("unknown_1", uint8), F("unknown_2", uint8), F("unknown_3", uint8),
        F("unknown_4", uint8), F("unknown_5", uint8), F("unknown_6", uint8),
        F("unknown_one", uint32) >>)

\* class ShipLocation, chunk 'ShlD'
ShipLocation_init ==
    ChunkOf(<<83, 104, 108, 68>>, <<
        F("flag", uint8), F("location", string), F("region", string),
        F("unknown_1", uint32), F("unknown_2", uint8) >>)

ShipLocation_write_to ==
    ChunkOf(<<83, 104, 108, 68>>, <<
        F("flag", uint8), F("location", string), F("region", string),
        F("unknown_1", uint32), F("unknown_2", uint8) >>)

\* class WorldCloudData, chunk 'MtBG'
WorldCloudData_init ==
    ChunkOf(<<77, 116, 66, 71>>, <<
        F("zero", uint8), F("unknown_1", uint8), F("size_x", uint32),
        F("size_y", uint32), F("data", Bytes(MAP_DATA_SIZE)) >>)

WorldCloudData_write_to ==
    ChunkOf(<<77, 116, 66, 71>>, <<
        F("zero", uint8), F("unknown_1", uint8), F("size_x", uint32),
        F("size_y", uint32), F("data", Bytes(MAP_DATA_SIZE)) >>)

\* class WorldData, chunk 'PWDT'
WorldData_init ==
    ChunkOf(<<80, 87, 68, 84>>, <<
        F("unknown_one", uint8),
        F("cloud_data", ListOf(varint, WorldCloudData_init)) >>)

WorldData_write_to ==
    ChunkOf(<<80, 87, 68, 84>>, <<
        F("unknown_one", uint8),
        F("cloud_data", ListOf(varint, WorldCloudData_write_to)) >>)

\* class CrewController, chunk 'PeCo'
CrewController_init ==
    ChunkOf(<<80, 101, 67, 111>>, <<
        F("zero", uint8), F("crew", DictItems(varint, Class("CrewStatus"))) >>)

CrewController_write_to ==
    ChunkOf(<<80, 101, 67, 111>>, <<
        F("zero", uint8), F("crew", DictItems(varint, Class("CrewStatus"))) >>)

\* WorldData.reveal, of the first cloud data only.
WorldData_reveal_first(self) ==
    [self EXCEPT !.cloud_data =
        [i \in DOMAIN self.cloud_data |->
            IF i = 1 THEN WorldCloudData_reveal(self.cloud_data[i])
            ELSE self.cloud_data[i]]]

\* WorldData.reveal
WorldData_reveal(self) ==
    [self EXCEPT !.cloud_data =
        [i \in DOMAIN self.cloud_data |-> WorldCloudData_reveal(self.cloud_data[i])]]

\* WorldData.hide
WorldData_hide(self) ==
    [self EXCEPT !.cloud_data =
        [i \in DOMAIN self.cloud_data |-> WorldCloudData_hide(self.cloud_data[i])]]

--------------------------------------------------------------------------
(* The classes whose constructor or writer is more than a run.            *)

InMissionSavegameException == "InMissionSavegameException"

\* class MissionData, chunk 'MsnD': the reads before the in-mission test
MissionData_init_head ==
    << F("flag", uint8), F("location", string), F("another_location", string),
       F("unknown_1", uint8), F("unknown_2", uint8), F("unknown_3", uint8),
       F("unknown_4", uint8), F("unknown_mission_related_1", uint8),
       F("unknown_mission_related_2", uint8) >>

\* class MissionData: the reads after the in-mission test
MissionData_init_rest ==
    << F("unknown_5", uint8), F("active_crew", ListOf(varint, string)),
       F("unknown_6", uint8), F("unknown_7", uint8),
       F("unknown_same_1", uint32), F("unknown_same_2", uint32),
       F("unknown_same_3", uint32), F("unknown_same_4", uint32),
       F("unknown_zeroes_1", uint8), F("unknown_zeroes_2", uint8),
       F("unknown_zeroes_3", uint8), F("unknown_zeroes_4", uint8),
       F("unknown_zeroes_5", uint8), F("unknown_8", varint),
       F("difficulty", Difficulty_init), F("unknown_zeroes_6", uint8),
       F("unknown_eight_bytes",
         ListOf(varint, Tuple(<<F("one", uint32), F("two", uint32)>>))),
       F("unknown_zeroes_7", uint8), F("unknown_zeroes_8", uint8),
       F("unknown_zeroes_9", uint8),
       F("unknown_strings", ListOf(varint, string)) >>

\* MissionData.__init__ with the test of the first byte only.
MissionData_init_first(d) ==
    Bind(ReadFields(Chunk_init(d, <<77, 115, 110, 68>>), MissionData_init_head, 1,
                    [header |-> <<77, 115, 110, 68>>]), LAMBDA r :
        IF r.err # NoErr THEN r
        ELSE IF r.val.unknown_mission_related_1 > 0
        THEN Raise(r, InMissionSavegameException)
        ELSE ReadFields(r, MissionData_init_rest, 1, r.val))

\* class MissionData, chunk 'MsnD'
MissionData_init(d) ==
    Bind(ReadFields(Chunk_init(d, <<77, 115, 110, 68>>), MissionData_init_head, 1,
                    [header |-> <<77, 115, 110, 68>>]), LAMBDA r :
        IF r.err # NoErr THEN r
        ELSE IF r.val.unknown_mission_related_1 > 0
                \/ r.val.unknown_mission_related_2 # 0
        THEN Raise(r, InMissionSavegameException)
        ELSE ReadFields(r, MissionData_init_rest, 1, r.val))

MissionData_write_to ==
    ChunkOf(<<77, 115, 110, 68>>, <<
       F("flag", uint8), F("location", string), F("another_location", string),
       F("unknown_1", uint8), F("unknown_2", uint8), F("unknown_3", uint8),
       F("unknown_4", uint8), F("unknown_mission_related_1", uint8),
       F("unknown_mission_related_2", uint8), F("unknown_5", uint8),
       F("active_crew", ListOf(varint, string)),
       F("unknown_6", uint8), F("unknown_7", uint8),
       F("unknown_same_1", uint32), F("unknown_same_2", uint32),
       F("unknown_same_3", uint32), F("unknown_same_4", uint32),
       F("unknown_zeroes_1", uint8), F("unknown_zeroes_2", uint8),
       F("unknown_zeroes_3", uint8), F("unknown_zeroes_4", uint8),
       F("unknown_zeroes_5", uint8), F("unknown_8", varint),
       F("difficulty", Difficulty_write_to), F("unknown_zeroes_6", uint8),
       F("unknown_eight_bytes",
         ListOf(varint, Tuple(<<F("one", uint32), F("two", uint32)>>))),
       F("unknown_zeroes_7", uint8), F("unknown_zeroes_8", uint8),
       F("unknown_zeroes_9", uint8),
       F("unknown_strings", ListOf(varint, string)) >>)

\* class ShopData, chunk 'PBar'
ShopData_init(d, name) ==
    Bind(ReadFields(Chunk_init(d, <<80, 66, 97, 114>>),
                    << F("unknown_begin_1", uint8), F("unknown_begin_2", uint8),
                       F("has_crew", uint8) >>, 1,
                    [header |-> <<80, 66, 97, 114>>, name |-> name,
                     available_crew |-> <<>>, crew_unknown_zero |-> 0]),
         LAMBDA r1 :
        IF r1.err # NoErr THEN r1
        ELSE Bind(IF r1.val.has_crew > 0
                  THEN ReadFields(r1, << F("crew_unknown_zero", uint8),
                                         F("available_crew", ListOf(varint, string)) >>,
                                  1, r1.val)
                  ELSE r1, LAMBDA r2 :
                ReadFields(r2, << F("purchased_items",
                                    ListOf(varint, Tuple(<<F("item", string),
                                                           F("qty", uint32)>>))),
                                  F("unknown_end", uint32) >>, 1, r2.val)))

ShopData_write_to(d, v) ==
    Bind(WriteFields(write_chunk_header(d, v.header),
                     << F("unknown_begin_1", uint8), F("unknown_begin_2", uint8) >>,
                     1, v), LAMBDA w1 :
        WriteFields(IF Len(v.available_crew) = 0
                    THEN write_uint8(w1, 0)
                    ELSE WriteFields(w1, << F("has_crew", uint8),
                                            F("crew_unknown_zero", uint8),
                                            F("available_crew", ListOf(varint, string)) >>,
                                     1, v),
                    << F("purchased_items",
                         ListOf(varint, Tuple(<<F("item", string), F("qty", uint32)>>))),
                       F("unknown_end", uint32) >>, 1, v))

\* class Shops: for _ in range(num_shops)
RECURSIVE Shops_init_loop(_, _, _)
Shops_init_loop(d, n, shops) ==
    IF d.err # NoErr THEN d
    ELSE IF n = 0 THEN [d EXCEPT !.val = [shops |-> shops]]
    ELSE Bind(read_string(d), LAMBDA rk :
            Bind(ShopData_init(rk, rk.val), LAMBDA r :
                IF r.err # NoErr THEN r
                ELSE Shops_init_loop(r, n - 1, DictSet(shops, rk.val, r.val))))

Shops_init(d) ==
    Bind(read_varint(d), LAMBDA r :
        IF r.err # NoErr THEN r ELSE Shops_init_loop(r, r.val, <<>>))

\* class Shops: for shop in self.shops.values()
RECURSIVE Shops_write_loop(_, _, _)
Shops_write_loop(d, shops, i) ==
    IF d.err # NoErr THEN d
    ELSE IF i > Len(shops) THEN d
    ELSE Shops_write_loop(
            ShopData_write_to(write_string(d, shops[i][2].name), shops[i][2]),
            shops, i + 1)

Shops_write_to(d, v) ==
    Shops_write_loop(write_varint(d, Len(v.shops)), v.shops, 1)

KeyError == "KeyError"

\* class JobStatus; an attribute that is None is held as -1.
JobStatus(name) == [name |-> name, level |-> -1, xp |-> -1]

\* class CrewStatus: the loop over the job levels
RECURSIVE CrewStatus_init_levels(_, _, _)
CrewStatus_init_levels(d, n, jobs) ==
    IF d.err # NoErr THEN d
    ELSE IF n = 0 THEN [d EXCEPT !.val = jobs]
    ELSE Bind(read_string(d), LAMBDA rn :
            Bind(read_uint32(rn), LAMBDA rl :
                IF rl.err # NoErr THEN rl
                ELSE CrewStatus_init_levels(rl, n - 1,
                        DictSet(jobs, rn.val,
                                [JobStatus(rn.val) EXCEPT !.level = rl.val]))))

\* class CrewStatus: the loop over the job experience
RECURSIVE CrewStatus_init_xp(_, _, _)
CrewStatus_init_xp(d, n, jobs) ==
    IF d.err # NoErr THEN d
    ELSE IF n = 0 THEN [d EXCEPT !.val = jobs]
    ELSE Bind(read_string(d), LAMBDA rn :
            Bind(read_uint32(rn), LAMBDA rx :
                IF rx.err # NoErr THEN rx
                ELSE IF ~DictHas(jobs, rn.val) THEN Raise(rx, KeyError)
                ELSE CrewStatus_init_xp(rx, n - 1,
                        DictSet(jobs, rn.val,
                                [DictGet(jobs, rn.val) EXCEPT !.xp = rx.val]))))

\* class CrewStatus, chunk 'Pers'
CrewStatus_init(d) ==
    Bind(ReadFields(Chunk_init(d, <<80, 101, 114, 115>>),
                    << F("unknown_start", uint8), F("name", string) >>, 1,
                    [header |-> <<80, 101, 114, 115>>]), LAMBDA r1 :
      Bind(read_uint8(r1), LAMBDA c1 :
        IF c1.err # NoErr THEN c1
        ELSE Bind(CrewStatus_init_levels(c1, c1.val, <<>>), LAMBDA r2 :
          Bind(read_uint8(r2), LAMBDA c2 :
            IF c2.err # NoErr THEN c2
            ELSE Bind(CrewStatus_init_xp(c2, c2.val, r2.val), LAMBDA r3 :
                ReadFields(r3, << F("cog_selections", ListOf(varint, string)),
                                  F("reserve_xp", uint32),
                                  F("num_missions", uint32),
                                  F("personal_upgrade_count", uint32) >>, 1,
                           ("jobs" :> r3.val) @@ r1.val))))))

\* class CrewStatus: for job in self.jobs.values(), with attr level or xp
RECURSIVE CrewStatus_write_jobs(_, _, _, _)
CrewStatus_write_jobs(d, jobs, i, attr) ==
    IF d.err # NoErr THEN d
    ELSE IF i > Len(jobs) THEN d
    ELSE CrewStatus_write_jobs(
            write_uint32(write_string(d, jobs[i][2].name), jobs[i][2][attr]),
            jobs, i + 1, attr)

CrewStatus_write_to(d, v) ==
    Bind(WriteFields(write_chunk_header(d, v.header),
                     << F("unknown_start", uint8), F("name", string) >>, 1, v),
         LAMBDA w1 :
      Bind(CrewStatus_write_jobs(write_uint8(w1, Len(v.jobs)), v.jobs, 1, "level"),
           LAMBDA w2 :
        Bind(CrewStatus_write_jobs(write_uint8(w2, Len(v.jobs)), v.jobs, 1, "xp"),
             LAMBDA w3 :
            WriteFields(w3, << F("cog_selections", ListOf(varint, string)),
                               F("reserve_xp", uint32),
                               F("num_missions", uint32),
                               F("personal_upgrade_count", uint32) >>, 1, v))))

--------------------------------------------------------------------------
(* class UnparsedData: the scan of the bytes the classes above do not      *)
(* cover.  categorized is a list of segments: bytes, written as they are,  *)
(* or a str, written with write_string.  A str segment also carries where  *)
(* and as what it was found (kind, the offsets loc and end of its bytes,   *)
(* and the second varint D), which the code does not keep.                 *)

IndexError == "IndexError"

\* The characters of VALID_STRING_RE: - 0-9 A-Z _ a-z
ValidStringChar(c) ==
    c = 45 \/ c \in 48..57 \/ c \in 65..90 \/ c = 95 \/ c \in 97..122

\* VALID_STRING_RE.match(s); $ also matches before a final newline.
VALID_STRING_RE(s) ==
    /\ Len(s) >= 1
    /\ \/ \A i \in 1..Len(s) : ValidStringChar(s[i])
       \/ /\ Len(s) >= 2
          /\ s[Len(s)] = 10
          /\ \A i \in 1..(Len(s) - 1) : ValidStringChar(s[i])

\* _read_remaining_varint from its iter_count-th round on.  st is "ok" with
\* the tuple (data, pos), "None", or IndexError when pos is past the data.
RECURSIVE _read_remaining_varint(_, _, _, _)
_read_remaining_varint(bytes, pos, iter_count, acc) ==
    IF iter_count >= 4 THEN [st |-> "None"]
    ELSE IF pos >= Len(bytes) THEN [st |-> IndexError]
    ELSE IF bytes[pos + 1] >= 128
    THEN _read_remaining_varint(bytes, pos + 1, iter_count + 1,
                                acc + (bytes[pos + 1] % 128) * Pow128(iter_count))
    ELSE [st |-> "ok", pos |-> pos + 1,
          data |-> acc + (bytes[pos + 1] % 128) * Pow128(iter_count)]

\* return False / return True, with the scanner object as it then is
Checked(d, u, found) == [d EXCEPT !.val = [found |-> found, u |-> u]]

\* self.categorized after the data before a string found at cur_pos
StoreBefore(d, u) ==
    IF u.remaining_prev_pos < u.remaining_cur_pos
    THEN Append(u.categorized,
                [t |-> "bytes",
                 v |-> SubSeq(d.data, u.remaining_prev_pos + 1, u.remaining_cur_pos)])
    ELSE u.categorized

\* _check_remaining_string, second varint zero: a potential string
_check_remaining_definition(d, u, strlen, my_pos) ==
    LET string_val == SubSeq(d.data, my_pos + 1,
                             IF my_pos + strlen > Len(d.data) THEN Len(d.data)
                                                             ELSE my_pos + strlen)
        seen  == string_val \in d.string_read_seen
        guess == IF seen /\ u.string_storage_guess = UNKNOWN
                 THEN get_string_storage_guess(d)
                 ELSE u.string_storage_guess
    IN IF Len(string_val) # strlen THEN Checked(d, u, FALSE)
       ELSE IF ~VALID_STRING_RE(string_val) THEN Checked(d, u, FALSE)
       ELSE IF seen /\ guess = COMPRESSED
       THEN Checked(d, [u EXCEPT !.string_storage_guess = guess], FALSE)
       ELSE Checked(
              IF seen THEN d
              ELSE [d EXCEPT !.string_read_lookup = MapPut(@, my_pos, string_val),
                             !.string_read_seen = @ \cup {string_val}],
              [u EXCEPT !.string_storage_guess = guess,
                        !.categorized =
                            Append(StoreBefore(d, u),
                                   [t |-> "str", v |-> string_val, kind |-> "first",
                                    loc |-> u.remaining_cur_pos, D |-> 0,
                                    end |-> my_pos + strlen]),
                        !.remaining_cur_pos = my_pos + strlen,
                        !.remaining_prev_pos = my_pos + strlen],
              TRUE)

\* _check_remaining_string, second varint non-zero: a potential reference
_check_remaining_reference(d, u, strlen, second_val_pos, second_val, my_pos) ==
    LET target_pos == second_val_pos - second_val
    IN IF target_pos \in DOMAIN d.string_read_lookup
       THEN IF Len(d.string_read_lookup[target_pos]) # strlen
            THEN Checked(d, u, FALSE)
            ELSE Checked(d,
                   [u EXCEPT !.categorized =
                                 Append(StoreBefore(d, u),
                                        [t |-> "str",
                                         v |-> d.string_read_lookup[target_pos],
                                         kind |-> "ref",
                                         loc |-> u.remaining_cur_pos,
                                         D |-> second_val, end |-> my_pos]),
                             !.remaining_cur_pos = my_pos,
                             !.remaining_prev_pos = my_pos],
                   TRUE)
       ELSE Checked(d, u, FALSE)

_check_remaining_string(d, u) ==
    Bind(_read_remaining_varint(d.data, u.remaining_cur_pos, 0, 0), LAMBDA r1 :
        IF r1.st = IndexError THEN Raise(d, IndexError)
        ELSE IF r1.st = "None" THEN Checked(d, u, FALSE)
        ELSE IF r1.data = 0 \/ r1.data > 255 THEN Checked(d, u, FALSE)
        ELSE Bind(_read_remaining_varint(d.data, r1.pos, 0, 0), LAMBDA r2 :
                IF r2.st = IndexError THEN Raise(d, IndexError)
                ELSE IF r2.st = "None" THEN Checked(d, u, FALSE)
                ELSE IF r2.data = 0
                THEN _check_remaining_definition(d, u, r1.data, r2.pos)
                ELSE _check_remaining_reference(d, u, r1.data, r1.pos, r2.data,
                                                r2.pos)))

\* UnparsedData.__init__: the loop, then the data after the last string
RECURSIVE UnparsedData_loop(_, _)
UnparsedData_loop(d, u) ==
    IF d.err # NoErr THEN d
    ELSE IF u.remaining_cur_pos < u.last_pos
    THEN Bind(_check_remaining_string(d, u), LAMBDA r :
            IF r.err # NoErr THEN r
            ELSE IF r.val.found THEN UnparsedData_loop(r, r.val.u)
            ELSE UnparsedData_loop(r, [r.val.u EXCEPT !.remaining_cur_pos = @ + 1]))
    ELSE [seek(d, u.last_pos) EXCEPT
             !.val = [u EXCEPT !.categorized =
                         IF u.remaining_prev_pos < u.last_pos
                         THEN Append(u.categorized,
                                     [t |-> "bytes",
                                      v |-> SubSeq(d.data, u.remaining_prev_pos + 1,
                                                   u.last_pos)])
                         ELSE u.categorized]]

UnparsedData_init(d) ==
    IF d.err # NoErr THEN d
    ELSE UnparsedData_loop(d, [start_pos |-> tell(d),
                               last_pos |-> Len(d.data),
                               categorized |-> <<>>,
                               string_storage_guess |-> UNKNOWN,
                               remaining_cur_pos |-> tell(d),
                               remaining_prev_pos |-> tell(d)])

\* UnparsedData.write_to with each string written with the second varint
\* it had in the file read.
RECURSIVE UnparsedData_write_loop_verbatim(_, _, _)
UnparsedData_write_loop_verbatim(odf, categorized, i) ==
    IF odf.err # NoErr THEN odf
    ELSE IF i > Len(categorized) THEN odf
    ELSE UnparsedData_write_loop_verbatim(
            IF categorized[i].t = "bytes" THEN write(odf, categorized[i].v)
            ELSE IF categorized[i].D = 0
            THEN write(write_varint(write_varint(odf, Len(categorized[i].v)), 0),
                       categorized[i].v)
            ELSE write_varint(write_varint(odf, Len(categorized[i].v)),
                              categorized[i].D),
            categorized, i + 1)

\* UnparsedData.write_to, from the i-th segment on
RECURSIVE UnparsedData_write_loop(_, _, _)
UnparsedData_write_loop(odf, categorized, i) ==
    IF odf.err # NoErr THEN odf
    ELSE IF i > Len(categorized) THEN odf
    ELSE UnparsedData_write_loop(
            IF categorized[i].t = "bytes" THEN write(odf, categorized[i].v)
                                          ELSE write_string(odf, categorized[i].v),
            categorized, i + 1)

UnparsedData_write_to(odf, u) == UnparsedData_write_loop(odf, u.categorized, 1)

\* The constructor of a class that is not given as a run.
ReadClass(d, name) ==
    CASE name = "MissionData"  -> MissionData_init(d)
      [] name = "CrewStatus"   -> CrewStatus_init(d)
      [] name = "Shops"        -> Shops_init(d)
      [] name = "UnparsedData" -> UnparsedData_init(d)

\* The writer of a class that is not given as a run.
WriteClass(d, name, v) ==
    CASE name = "MissionData"  -> WriteT(d, MissionData_write_to, v)
      [] name = "CrewStatus"   -> CrewStatus_write_to(d, v)
      [] name = "Shops"        -> Shops_write_to(d, v)
      [] name = "UnparsedData" -> UnparsedData_write_to(d, v)

--------------------------------------------------------------------------
(* class Savefile(Datafile): the record of the Datafile with the           *)
(* attributes of the document added.  checksum, which read_uint32 returns  *)
(* as a number the code never uses, is held as the four bytes read.        *)

\* Savefile.MAX_VERSION
MAX_VERSION == 1

NotSWH2          == "\"SWH2\" header not found"
VersionError     == "Savefile version found, we only support up to MAX_VERSION"
ReDeSignifier    == "Unknown ReDe chunk signifier"
ReDePrefix       == "Unknown ReDe chunk prefix"
ReconstructError == "Could not reconstruct an identical savefile, aborting!"

\* b'SWH2'
SWH2 == <<83, 87, 72, 50>>

\* The same with the version tested before the magic.
Savefile_read_head_version_first(d) ==
    Bind(read(d, 4), LAMBDA m :
        IF m.err # NoErr THEN m
        ELSE Bind(read_uint8(m), LAMBDA rv :
            IF rv.err # NoErr THEN rv
            ELSE IF rv.val > MAX_VERSION THEN Raise(rv, VersionError)
            ELSE IF m.val # SWH2 THEN Raise(rv, NotSWH2)
            ELSE Bind(read(rv, 4), LAMBDA rc :
                IF Len(rc.val) # 4 THEN Raise(rc, StructError)
                ELSE ReadFields(rc,
                        << F("header", Header_init), F("imh2", Imh2_init),
                           F("resources", GameResources_init),
                           F("ship", Ship_init),
                           F("inventory", Inventory_init),
                           F("crew_list", ListOf(uint8, string)),
                           F("used_crew", ListOf(uint8, string)) >>, 1,
                        [version |-> rv.val, checksum |-> rc.val]))))

\* _read_and_parse: magic, version, checksum, then Header ... used_crew
Savefile_read_head(d) ==
    Bind(read(d, 4), LAMBDA m :
        IF m.err # NoErr THEN m
        ELSE IF m.val # SWH2 THEN Raise(m, NotSWH2)
        ELSE Bind(read_uint8(m), LAMBDA rv :
            IF rv.err # NoErr THEN rv
            ELSE IF rv.val > MAX_VERSION THEN Raise(rv, VersionError)
            ELSE Bind(read(rv, 4), LAMBDA rc :
                IF Len(rc.val) # 4 THEN Raise(rc, StructError)
                ELSE ReadFields(rc,
                        << F("header", Header_init), F("imh2", Imh2_init),
                           F("resources", GameResources_init),
                           F("ship", Ship_init),
                           F("inventory", Inventory_init),
                           F("crew_list", ListOf(uint8, string)),
                           F("used_crew", ListOf(uint8, string)) >>, 1,
                        [version |-> rv.val, checksum |-> rc.val]))))

\* _read_and_parse: the optional ReDe chunk.  d.val holds the attributes
\* set so far.
Savefile_read_rede(d) ==
    IF d.err # NoErr THEN d
    ELSE Bind(read_uint8(d), LAMBDA h :
           IF h.err # NoErr THEN h
           ELSE IF h.val # 0 /\ h.val # 1 THEN Raise(h, ReDeSignifier)
           ELSE IF h.val = 0 THEN [h EXCEPT !.val = ("rede" :> None) @@ d.val]
           ELSE Bind(read_uint8(h), LAMBDA z :
                   IF z.err # NoErr THEN z
                   ELSE IF z.val # 0 THEN Raise(z, ReDePrefix)
                   ELSE Bind(ReadT(z, ReDe_init), LAMBDA rr :
                           IF rr.err # NoErr THEN rr
                           ELSE [rr EXCEPT !.val = ("rede" :> rr.val) @@ d.val])))

\* _read_and_parse: LootTableStatus ... shops_offset
Savefile_read_loot(d) ==
    IF d.err # NoErr THEN d
    ELSE ReadFields(d,
           << F("loot_tables", LootTableStatus_init), F("lode", LootDeckStatus_init),
              F("ship_location", ShipLocation_init),
              F("missions", Class("MissionData")),
              F("shops_offset", varint) >>, 1, d.val)

\* The region read as the code once did: the data behind the WorldData
\* record scanned for strings on the Datafile of the whole file.
Savefile_read_skippable_scanned(d) ==
    IF d.err # NoErr THEN d
    ELSE IF d.val.shops_offset > 0
    THEN Bind(ReadT(d, WorldData_init), LAMBDA w :
            IF w.err # NoErr THEN w
            ELSE Bind(UnparsedData_loop(w,
                        [start_pos |-> tell(w),
                         last_pos |-> tell(d) + d.val.shops_offset,
                         categorized |-> <<>>,
                         string_storage_guess |-> UNKNOWN,
                         remaining_cur_pos |-> tell(w),
                         remaining_prev_pos |-> tell(w)]), LAMBDA s :
                    IF s.err # NoErr THEN s
                    ELSE [s EXCEPT !.val =
                            [pbar_start_loc |-> tell(d) + d.val.shops_offset,
                             world_data |-> w.val,
                             skipped_data |-> SubSeq(d.data, tell(w) + 1,
                                                     tell(d) + d.val.shops_offset)]
                            @@ d.val]))
    ELSE [d EXCEPT !.val = [pbar_start_loc |-> tell(d) + d.val.shops_offset,
                            world_data |-> None,
                            skipped_data |-> None] @@ d.val]

\* _read_and_parse: the region shops_offset spans
Savefile_read_skippable(d) ==
    IF d.err # NoErr THEN d
    ELSE IF d.val.shops_offset > 0
    THEN Bind(ReadT(d, WorldData_init), LAMBDA w :
            IF w.err # NoErr THEN w
            ELSE Bind(read(w, (tell(d) + d.val.shops_offset) - tell(w)), LAMBDA s :
                    [s EXCEPT !.val = [pbar_start_loc |-> tell(d) + d.val.shops_offset,
                                       world_data |-> w.val,
                                       skipped_data |-> s.val] @@ d.val]))
    ELSE [d EXCEPT !.val = [pbar_start_loc |-> tell(d) + d.val.shops_offset,
                            world_data |-> None,
                            skipped_data |-> None] @@ d.val]

\* _read_and_parse: pre_shops_zero, Shops, CrewController
Savefile_read_shops(d) ==
    IF d.err # NoErr THEN d
    ELSE ReadFields(d, << F("pre_shops_zero", uint8), F("shops", Class("Shops")),
                          F("crew", CrewController_init) >>, 1, d.val)

\* _read_and_parse: UnparsedData
Savefile_read_remaining(d) ==
    IF d.err # NoErr THEN d
    ELSE ReadFields(d, << F("remaining", Class("UnparsedData")) >>, 1, d.val)

\* _read_and_parse up to the unparsed data
Savefile_read_modelled(d) ==
    Savefile_read_shops(Savefile_read_skippable(Savefile_read_loot(
        Savefile_read_rede(Savefile_read_head(d)))))

_read_and_parse(d) == Savefile_read_remaining(Savefile_read_modelled(d))

\* Datafile.read_and_parse.  The attributes _read_and_parse has set join
\* the object.
read_and_parse(d) ==
    Bind(_read_and_parse(d), LAMBDA r :
        IF r.err # NoErr THEN r
        ELSE r.val @@ [r EXCEPT !.string_storage = get_string_storage_guess(r),
                                !.val = 0])

\* _prep_write_data: the skippable region, written to a Datafile of its own
Savefile_write_skippable(self) ==
    write(WriteT(Datafile_init(<<>>, TRUE), WorldData_write_to, self.world_data),
          self.skipped_data)

\* The checksum taken over getvalue()[8:].
Savefile_write_checksum_from8(odf) ==
    IF odf.err # NoErr THEN odf
    ELSE write(seek(odf, 5), crc32(SubSeq(getvalue(odf), 9, Len(getvalue(odf)))))

\* _prep_write_data: the checksum, written over the placeholder
Savefile_write_checksum(odf) ==
    IF odf.err # NoErr THEN odf
    ELSE write(seek(odf, 5), crc32(SubSeq(getvalue(odf), 10, Len(getvalue(odf)))))

\* The offset written as it was read, not as the region is long.
Savefile_write_offset_stored(odf, self) ==
    IF self.shops_offset = 0
    THEN write_varint(odf, self.shops_offset)
    ELSE Bind(Savefile_write_skippable(self), LAMBDA skippable_df :
            IF skippable_df.err # NoErr THEN Raise(odf, skippable_df.err)
            ELSE write(write_varint(odf, self.shops_offset),
                       read(seek(skippable_df, 0), -1).val))

\* _prep_write_data from the offset on; odf is the output so far
Savefile_write_offset(odf, self) ==
    IF self.shops_offset = 0
    THEN write_varint(odf, self.shops_offset)
    ELSE Bind(Savefile_write_skippable(self), LAMBDA skippable_df :
            IF skippable_df.err # NoErr THEN Raise(odf, skippable_df.err)
            ELSE write(write_varint(odf, tell(skippable_df)),
                       read(seek(skippable_df, 0), -1).val))

\* The object after a pass that also empties its read-side registry.
Savefile_assign_offset_cleared(self, w2) ==
    [self EXCEPT !.string_read_lookup = EmptyMap, !.string_read_seen = {}]

\* _prep_write_data: self.shops_offset = skippable_df.tell(), the one
\* assignment to the object; w2 is the output up to the offset
Savefile_assign_offset(self, w2) ==
    IF w2.err = NoErr /\ self.shops_offset # 0
       /\ Savefile_write_skippable(self).err = NoErr
    THEN [self EXCEPT !.shops_offset = tell(Savefile_write_skippable(self))]
    ELSE self

\* _prep_write_data.  The result is the Datafile written and the object,
\* whose shops_offset the method assigns.
_prep_write_data(self, force_string_mode) ==
    Bind(WriteFields(
           Bind(WriteFields(
                  write_uint32(write_uint8(write(
                      [Datafile_init(<<>>, TRUE) EXCEPT !.string_storage =
                          IF force_string_mode \in {COMPRESSED, EXPANDED}
                          THEN force_string_mode ELSE self.string_storage],
                      SWH2), self.version), 0),
                  << F("header", Header_write_to), F("imh2", Imh2_write_to),
                     F("resources", GameResources_write_to),
                     F("ship", Ship_write_to),
                     F("inventory", Inventory_write_to),
                     F("crew_list", ListOf(uint8, string)),
                     F("used_crew", ListOf(uint8, string)) >>, 1, self),
                LAMBDA w :
                  IF IsNone(self.rede) THEN write_uint8(w, 0)
                  ELSE WriteT(write_uint8(write_uint8(w, 1), 0), ReDe_write_to,
                              self.rede)),
           << F("loot_tables", LootTableStatus_write_to),
              F("lode", LootDeckStatus_write_to),
              F("ship_location", ShipLocation_write_to),
              F("missions", Class("MissionData")) >>, 1, self),
         LAMBDA w2 :
           [odf  |-> Savefile_write_checksum(
                        WriteFields(Savefile_write_offset(w2, self),
                           << F("pre_shops_zero", uint8), F("shops", Class("Shops")),
                              F("crew", CrewController_write_to),
                              F("remaining", Class("UnparsedData")) >>, 1, self)),
            self |-> Savefile_assign_offset(self, w2)])

\* The bytes of a Datafile that has been written: seek(0), read()
Written_bytes(odf) == read(seek(odf, 0), -1).val

\* Savefile.__init__ without the comparison.
Savefile_init_unchecked(bytes) ==
    Bind(read_and_parse(Datafile_init(bytes, FALSE)), LAMBDA sv :
        IF sv.err # NoErr THEN sv
        ELSE Bind(_prep_write_data(sv, sv.string_storage), LAMBDA p :
                IF p.odf.err # NoErr THEN Raise(p.self, p.odf.err)
                ELSE p.self))

\* Savefile.__init__ with the comparison taken behind the checksum.
Savefile_init_behind_checksum(bytes) ==
    Bind(read_and_parse(Datafile_init(bytes, FALSE)), LAMBDA sv :
        IF sv.err # NoErr THEN sv
        ELSE Bind(_prep_write_data(sv, sv.string_storage), LAMBDA p :
                IF p.odf.err # NoErr THEN Raise(p.self, p.odf.err)
                ELSE IF SubSeq(p.self.data, 10, Len(p.self.data))
                        # SubSeq(Written_bytes(p.odf), 10, Len(Written_bytes(p.odf)))
                THEN Raise(p.self, ReconstructError)
                ELSE p.self))

\* Savefile.__init__ with do_write False: parse, then the comparison of the
\* file with what the parsed document is written as.
Savefile_init(bytes) ==
    Bind(read_and_parse(Datafile_init(bytes, FALSE)), LAMBDA sv :
        IF sv.err # NoErr THEN sv
        ELSE Bind(_prep_write_data(sv, sv.string_storage), LAMBDA p :
                IF p.odf.err # NoErr THEN Raise(p.self, p.odf.err)
                ELSE IF p.self.data # Written_bytes(p.odf)
                THEN Raise(p.self, ReconstructError)
                ELSE p.self))

--------------------------------------------------------------------------
(* Save files to load.  A document is written out with _prep_write_data    *)
(* in COMPRESSED or EXPANDED mode to give a file of the kind the game      *)
(* writes; further files differ from these in single places.               *)

\* value.encode('latin1') of the names the documents use
Latin1(s) ==
    CASE s = "ann"    -> <<97, 110, 110>>
      [] s = "bob"    -> <<98, 111, 98>>
      [] s = "cat"    -> <<99, 97, 116>>
      [] s = "hat"    -> <<104, 97, 116>>
      [] s = "cap"    -> <<99, 97, 112>>
      [] s = "gun"    -> <<103, 117, 110>>
      [] s = "key"    -> <<107, 101, 121>>
      [] s = "up"     -> <<117, 112>>
      [] s = "bar"    -> <<98, 97, 114>>
      [] s = "town"   -> <<116, 111, 119, 110>>
      [] s = "sniper" -> <<115, 110, 105, 112, 101, 114>>
      [] s = "tank"   -> <<116, 97, 110, 107>>
      [] s = "loot"   -> <<108, 111, 111, 116>>
      [] s = "deck"   -> <<100, 101, 99, 107>>
      [] s = "engineer" -> <<101, 110, 103, 105, 110, 101, 101, 114>>
      [] s = "hunter" -> <<104, 117, 110, 116, 101, 114>>
      [] s = "boomer" -> <<98, 111, 111, 109, 101, 114>>
      [] s = "flanker" -> <<102, 108, 97, 110, 107, 101, 114>>
      [] s = "x"      -> <<120>>

BaseDifficulty ==
    [header |-> <<68, 105, 102, 99>>, unknown |-> 1,
     settings |-> <<1, 2, 3, 4, 5, 6, 7, 8>>]

BaseHeader ==
    [header |-> <<72, 101, 97, 100>>, zero_1 |-> 0, unknown_1 |-> 7, zero_2 |-> 0,
     unknown_2 |-> 300, unknown_3 |-> 1, unknown_4 |-> 2, unknown_5 |-> 3,
     unknown_6 |-> 70000, difficulties |-> <<BaseDifficulty, BaseDifficulty>>,
     cur_location |-> Latin1("town"), cur_region |-> None, cur_quest |-> None,
     crew |-> <<Latin1("ann")>>]

BaseImh2 ==
    [header |-> <<105, 109, 104, 50>>, unknown_start |-> 1, cur_outset |-> None,
     unknown_1 |-> 0, unknown_2 |-> 0, days_elapsed |-> 4,
     small_unknown_1 |-> 0, small_unknown_2 |-> 0, small_unknown_3 |-> 0,
     small_unknown_4 |-> 0, small_unknown_5 |-> 0,
     cur_campaign_state |-> None, small_unknown_6 |-> 0]

BaseResources ==
    [header |-> <<71, 97, 82, 101>>, unknown |-> 1, fragments |-> 3, water |-> 500]

BaseShip ==
    [header |-> <<83, 104, 105, 112>>, unknown |-> 1, equipped |-> <<>>,
     item_ids |-> <<2>>, item_sequences |-> <<1>>,
     upgrades |-> <<Latin1("up")>>,
     unknown_b1 |-> 0, unknown_b2 |-> 0, unknown_b3 |-> 0, unknown_b4 |-> 0,
     unknown_i1 |-> 0, unknown_i2 |-> 0, unknown_s1 |-> 258]

\* An InventoryItem; flags 1 is WEAPON, 8 is KEYITEM
BaseItem(id, flags, name) ==
    [header |-> <<73, 116, 73, 110>>, unknown_1 |-> 0, id |-> id, flags |-> flags,
     name |-> name, unknown_4 |-> 0, used |-> 0]

BaseLoadout(name) ==
    [header |-> <<67, 114, 76, 111>>, zero |-> 0, name |-> name, cur_weapon |-> 1,
     unknown |-> 3, utility_1 |-> 0, utility_2 |-> 0, utility_3 |-> 0,
     cur_hat |-> Latin1("hat"), used |-> 0]

BaseInventory ==
    [header |-> <<73, 110, 118, 101>>, unknown_1 |-> 1, last_inventory_id |-> 2,
     items |-> <<BaseItem(1, 1, Latin1("gun")), BaseItem(2, 8, Latin1("key"))>>,
     new_items |-> <<2>>, unknown_arr_2 |-> <<>>,
     hats |-> <<Latin1("hat")>>, new_hats |-> <<>>, leeway_hat |-> None,
     loadouts |-> << <<Latin1("ann"), BaseLoadout(Latin1("ann"))>> >>]

BaseReDe(items) ==
    [header |-> <<82, 101, 68, 101>>, zero |-> 0, items |-> items, unknown |-> 1]

BaseLootTables ==
    [header |-> <<76, 84, 109, 97>>, zero |-> 0,
     loot_groups |-> <<[loot_group_name |-> Latin1("loot"),
                        decks |-> <<[header |-> <<76, 84, 100, 101>>, zero |-> 0,
                                     name |-> Latin1("deck"),
                                     rede |-> BaseReDe(<<Latin1("gun")>>)]>>]>>]

BaseLode ==
    [header |-> <<76, 111, 68, 101>>, zero |-> 0,
     decks |-> <<[deck_name |-> Latin1("deck"),
                  lodd |-> [header |-> <<76, 111, 68, 68>>, zero |-> 0,
                            items |-> <<Latin1("key")>>]]>>,
     unknown_1 |-> 0, unknown_2 |-> 0, unknown_3 |-> 0, unknown_4 |-> 0,
     unknown_5 |-> 0, unknown_6 |-> 0, unknown_one |-> 1]

BaseShipLocation ==
    [header |-> <<83, 104, 108, 68>>, flag |-> 1, location |-> Latin1("town"),
     region |-> None, unknown_1 |-> 0, unknown_2 |-> 0]

BaseMissions ==
    [header |-> <<77, 115, 110, 68>>, flag |-> 1, location |-> None,
     another_location |-> None, unknown_1 |-> 0, unknown_2 |-> 0, unknown_3 |-> 0,
     unknown_4 |-> 0, unknown_mission_related_1 |-> 0,
     unknown_mission_related_2 |-> 0, unknown_5 |-> 0,
     active_crew |-> <<Latin1("ann")>>, unknown_6 |-> 0, unknown_7 |-> 0,
     unknown_same_1 |-> 9, unknown_same_2 |-> 8, unknown_same_3 |-> 9,
     unknown_same_4 |-> 8, unknown_zeroes_1 |-> 0, unknown_zeroes_2 |-> 0,
     unknown_zeroes_3 |-> 0, unknown_zeroes_4 |-> 0, unknown_zeroes_5 |-> 0,
     unknown_8 |-> 200, difficulty |-> BaseDifficulty, unknown_zeroes_6 |-> 0,
     unknown_eight_bytes |-> <<[one |-> 1, two |-> 2]>>,
     unknown_zeroes_7 |-> 0, unknown_zeroes_8 |-> 0, unknown_zeroes_9 |-> 0,
     unknown_strings |-> <<>>]

BaseShop(name, has_crew, available_crew) ==
    [header |-> <<80, 66, 97, 114>>, name |-> name, unknown_begin_1 |-> 1,
     unknown_begin_2 |-> 0, has_crew |-> has_crew, crew_unknown_zero |-> 0,
     available_crew |-> available_crew,
     purchased_items |-> <<[item |-> Latin1("cap"), qty |-> 2]>>,
     unknown_end |-> 0]

BaseCrewStatus(name) ==
    [header |-> <<80, 101, 114, 115>>, unknown_start |-> 2, name |-> name,
     jobs |-> << <<Latin1("sniper"),
                   [name |-> Latin1("sniper"), level |-> 2, xp |-> 100]>> >>,
     cog_selections |-> <<>>, reserve_xp |-> 10, num_missions |-> 1,
     personal_upgrade_count |-> 0]

BaseCrew ==
    [header |-> <<80, 101, 67, 111>>, zero |-> 0,
     crew |-> << <<Latin1("ann"), BaseCrewStatus(Latin1("ann"))>> >>]

\* Unparsed data of bytes alone
BytesSeg(b) == [t |-> "bytes", v |-> b]

\* The document the files are made from, as a Savefile object.
BaseDoc ==
    [version |-> 1, checksum |-> <<0, 0, 0, 0>>, header |-> BaseHeader,
     imh2 |-> BaseImh2, resources |-> BaseResources, ship |-> BaseShip,
     inventory |-> BaseInventory, crew_list |-> <<Latin1("ann")>>,
     used_crew |-> <<>>, rede |-> BaseReDe(<<Latin1("bob")>>),
     loot_tables |-> BaseLootTables, lode |-> BaseLode,
     ship_location |-> BaseShipLocation, missions |-> BaseMissions,
     shops_offset |-> 0, pbar_start_loc |-> 0, world_data |-> None,
     skipped_data |-> None, pre_shops_zero |-> 0,
     shops |-> [shops |-> << <<Latin1("bar"),
                               BaseShop(Latin1("bar"), 1, <<Latin1("bob")>>)>> >>],
     crew |-> BaseCrew,
     remaining |-> [categorized |-> <<>>]]
       @@ [Datafile_init(<<>>, TRUE) EXCEPT !.string_storage = UNKNOWN]




\* The file a document is written as.
FileOf(doc, mode) == Written_bytes(_prep_write_data(doc, mode).odf)

\* A document with the bytes of its unparsed data
WithTail(doc, bytes) ==
    [doc EXCEPT !.remaining = [categorized |-> <<BytesSeg(bytes)>>]]

\* The bytes write_varint writes for n
VarintOf(n) == getvalue(write_varint(Datafile_init(<<>>, TRUE), n))

\* Unparsed data as the game writes it after a document in expanded mode:
\* an unknown record that names the crew member, holds a string of its own
\* and ends in zeroes.
ExpandedTail ==
    <<1, 0>> \o <<3, 0>> \o Latin1("ann") \o <<0, 0, 2>>
        \o <<3, 0>> \o Latin1("cat") \o <<7, 0, 0>>

\* The same in compressed mode: the name is a reference to where the
\* document has it first.  The length byte of the reference is two bytes
\* into the unparsed data, its second varint three.
CompressedTail(doc) ==
    Bind(_prep_write_data(doc, COMPRESSED).odf, LAMBDA w :
        <<1, 0>> \o <<3>>
            \o VarintOf((Len(getvalue(w)) + 3) - w.string_write_lookup[Latin1("ann")])
            \o <<0, 0, 2>> \o <<3, 0>> \o Latin1("cat") \o <<7, 0, 0>>)

\* The base document after the world map has been visited: a skippable
\* region of a WorldData record and three bytes the parser does not model.
WorldDoc ==
    [BaseDoc EXCEPT !.shops_offset = 9,
                    !.world_data = [header |-> <<80, 87, 68, 84>>, unknown_one |-> 1,
                                    cloud_data |-> <<>>],
                    !.skipped_data = <<5, 6, 7>>]

\* A document in which no string occurs twice: neither a reference nor a
\* duplicate is read from its file.
PlainDoc ==
    [BaseDoc EXCEPT !.header.crew = <<>>, !.header.cur_location = None,
                    !.inventory.loadouts = <<>>, !.inventory.hats = <<>>,
                    !.inventory.items = <<BaseItem(1, 1, Latin1("gun"))>>,
                    !.crew_list = <<>>, !.rede = None,
                    !.loot_tables.loot_groups = <<>>, !.lode.decks = <<>>,
                    !.missions.active_crew = <<>>,
                    !.shops = [shops |-> << <<Latin1("bar"),
                                              BaseShop(Latin1("bar"), 0, <<>>)>> >>],
                    !.crew.crew = <<>>]

\* bytes with the byte at offset i replaced
Patched(bytes, i, b) == [bytes EXCEPT ![i + 1] = b]

\* bytes with the checksum of what follows byte 9 stored at bytes 5 to 8
Sealed(bytes) ==
    Bind(bytes, LAMBDA b :
        SubSeq(b, 1, 5) \o crc32(SubSeq(b, 10, Len(b))) \o SubSeq(b, 10, Len(b)))

\* The offset of the shops_offset varint (of one byte) in a file that parses
OffsetAt(bytes) ==
    Bind(read_and_parse(Datafile_init(bytes, FALSE)), LAMBDA s :
        s.pbar_start_loc - s.shops_offset - 1)

\* Files as the game writes them
CompressedFile ==
    FileOf(WithTail(BaseDoc, CompressedTail(BaseDoc)), COMPRESSED)
ExpandedFile == FileOf(WithTail(BaseDoc, ExpandedTail), EXPANDED)
WorldFile ==
    FileOf(WithTail(WorldDoc, CompressedTail(WorldDoc)), COMPRESSED)
PlainFile == FileOf(WithTail(PlainDoc, <<1, 0, 2, 0>>), COMPRESSED)

\* The expanded file with a skippable region put in: the offset, a
\* WorldData record without clouds, three bytes the parser does not model
WithRegion(file, region) ==
    Bind(file, LAMBDA f :
        Bind(OffsetAt(f), LAMBDA o :
            Sealed(SubSeq(f, 1, o) \o region \o SubSeq(f, o + 2, Len(f)))))

WorldExpanded ==
    WithRegion(ExpandedFile, <<9>> \o <<80, 87, 68, 84, 1, 0>> \o <<5, 6, 7>>)

\* The same with the number of clouds, zero, written in two groups
LongCountFile ==
    WithRegion(ExpandedFile, <<10>> \o <<80, 87, 68, 84, 1, 128, 0>> \o <<5, 6, 7>>)

\* A file whose unparsed data holds 0x81 0x00 0x00 'A': a string of length 1
\* to the scanner, its length written in two groups
LongLengthFile ==
    FileOf(WithTail(BaseDoc, <<1, 0, 129, 0, 0, 65, 0>>), COMPRESSED)

\* An expanded file of the plain document whose unparsed data repeats the
\* name of the item
TailRepeatFile ==
    FileOf(WithTail(PlainDoc, <<1, 0>> \o <<3, 0>> \o Latin1("gun") \o <<0>>),
           EXPANDED)

\* The compressed file with a stored checksum that is not that of its bytes
BadChecksumFile ==
    Bind(CompressedFile, LAMBDA f : Patched(f, 5, (f[6] + 1) % 256))

\* Files with another magic, a later version, and an in-mission save
BadMagicFile   == Sealed(Patched(CompressedFile, 3, 51))
NewVersionFile ==
    FileOf(WithTail([BaseDoc EXCEPT !.version = MAX_VERSION + 1], <<0>>), COMPRESSED)
InMissionFile  ==
    FileOf(WithTail([BaseDoc EXCEPT !.missions.unknown_mission_related_1 = 1],
                    <<0>>), COMPRESSED)

\* Files of version 0, of a later version behind another magic, of the
\* first three bytes of the magic only, and of the magic only
VersionZeroFile        == Sealed(Patched(PlainFile, 4, 0))
BadMagicNewVersionFile == Patched(NewVersionFile, 0, 115)
ShortMagicFile         == <<83, 87, 72>>
MagicOnlyFile          == <<83, 87, 72, 50>>

\* The cursor behind the two mission-related bytes of the MsnD record of
\* bytes: the parts before the record, its tag, and its fields up to them
AtMissionBytes(bytes) ==
    Bind(Savefile_read_rede(Savefile_read_head(Datafile_init(bytes, FALSE))),
         LAMBDA h :
            IF h.err # NoErr THEN h
            ELSE Bind(ReadFields(h, << F("loot_tables", LootTableStatus_init),
                                       F("lode", LootDeckStatus_init),
                                       F("ship_location", ShipLocation_init) >>,
                                 1, h.val),
                      LAMBDA l :
                         IF l.err # NoErr THEN l
                         ELSE ReadFields(Chunk_init(l, <<77, 115, 110, 68>>),
                                         MissionData_init_head, 1,
                                         [header |-> <<77, 115, 110, 68>>])))

\* In-mission files: the second of the two bytes set; both set; the first
\* set and the file ending behind the two bytes; the first set in a file
\* that is not a savefile
InMissionSecondFile ==
    Bind(PlainFile, LAMBDA f :
        Sealed(Patched(f, tell(AtMissionBytes(f)) - 1, 2)))
InMissionBothFile ==
    Bind(InMissionFile, LAMBDA f :
        Sealed(Patched(f, tell(AtMissionBytes(f)) - 1, 255)))
InMissionShortFile ==
    Bind(InMissionFile, LAMBDA f :
        Sealed(SubSeq(f, 1, tell(AtMissionBytes(f)))))
InMissionBadMagicFile == Patched(InMissionFile, 1, 84)

\* The world document with a region that holds strings of its own: "ann",
\* which the file has before the region, "bar", which it has behind it,
\* and a reference to the "ann" of the region.
RegionDoc ==
    [WorldDoc EXCEPT !.skipped_data =
        <<3, 0>> \o Latin1("ann") \o <<3, 0>> \o Latin1("bar") \o <<3, 9>> \o <<7>>]

RegionStringsFile ==
    FileOf(WithTail(RegionDoc, CompressedTail(RegionDoc)), COMPRESSED)

\* The same file with the first "bar" behind the region, the name of the
\* shop, turned into a reference to the "bar" of the region (7 bytes behind
\* the WorldData record of 6 bytes).
RegionTargetFile ==
    Bind(RegionStringsFile, LAMBDA f :
      Bind(read_and_parse(Datafile_init(f, FALSE)), LAMBDA s :
        Bind(s.log[CHOOSE i \in DOMAIN s.log :
                      /\ s.log[i].val = Latin1("bar")
                      /\ \A j \in 1..(i - 1) : s.log[j].val # Latin1("bar")],
             LAMBDA e :
                Sealed(SubSeq(f, 1, e.dloc)
                         \o <<e.dloc - (s.pbar_start_loc - s.shops_offset + 6 + 7)>>
                         \o SubSeq(f, e.end + 1, Len(f))))))

\* The world file with an offset that ends inside the WorldData record
ShortOffsetFile ==
    Bind(WorldFile, LAMBDA f : Sealed(Patched(f, OffsetAt(f), 3)))

--------------------------------------------------------------------------
(* The varint specification: a Datafile in write mode gets varints        *)
(* written, is rewound (seek(0), as the create_new methods do) and read    *)
(* back; or a Datafile is opened on arbitrary bytes and varints are read.  *)

\* Bounds of the varint specification.
MaxDense        == 300
MaxVarintWrites == 2
MaxRawLen       == 5
MaxRawReads     == 2

TwoPow28 == 2^28

\* Values at the edges of each group count, and the first one past 28 bits.
VarintEdges == {0, 1, 127, 128, 16383, 16384, 2097151, 2097152,
                TwoPow28 - 1, TwoPow28}

VarintInputs == (0..MaxDense) \cup VarintEdges

\* Bytes with and without the continuation bit.
VarintBytes == {0, 1, 127, 128, 255}

RECURSIVE SeqsUpTo(_, _)
SeqsUpTo(S, n) ==
    IF n = 0 THEN {<<>>}
    ELSE LET shorter == SeqsUpTo(S, n - 1)
         IN shorter \cup {Append(s, x) : s \in {t \in shorter : Len(t) = n - 1}, x \in S}

NoSave == [status |-> "none"]

CodecIdle == data = <<>> /\ save = NoSave /\ out = NoSave /\ edits = <<>>

VarintInit ==
    /\ CodecIdle
    /\ wlog = <<>>
    /\ rlog = <<>>
    /\ \/ /\ df = Datafile_init(<<>>, TRUE)
          /\ pc = "write"
       \/ /\ \E raw \in SeqsUpTo(VarintBytes, MaxRawLen) : df = Datafile_init(raw, FALSE)
          /\ pc = "raw"

VarintWrite ==
    /\ pc = "write"
    /\ Len(wlog) < MaxVarintWrites
    /\ \E n \in (IF wlog = <<>> THEN VarintInputs ELSE VarintEdges) :
          LET w == write_varint(df, n)
          IN /\ df' = w
             /\ wlog' = Append(wlog, [kind |-> "varint", val |-> n,
                                      loc |-> tell(df), end |-> tell(w)])
    /\ UNCHANGED <<rlog, data, save, out, edits, pc>>

CodecRewind ==
    /\ pc = "write"
    /\ wlog # <<>>
    /\ df' = seek(df, 0)
    /\ pc' = "read"
    /\ UNCHANGED <<wlog, rlog, data, save, out, edits>>

VarintRead ==
    /\ \/ pc = "read" /\ Len(rlog) < Len(wlog)
       \/ pc = "raw" /\ Len(rlog) < MaxRawReads
    /\ df.err = NoErr
    /\ LET r == read_varint(df)
       IN /\ df' = r
          /\ rlog' = Append(rlog, [kind |-> "varint", val |-> r.val, err |-> r.err,
                                   loc |-> tell(df), end |-> tell(r)])
    /\ UNCHANGED <<wlog, data, save, out, edits, pc>>

VarintNext == VarintWrite \/ CodecRewind \/ VarintRead

SpecVarint == VarintInit /\ [][VarintNext]_vars

--------------------------------------------------------------------------
(* The string specification: the same, with string fields.  The write     *)
(* mode is any of the three a writing Datafile can be given.               *)

\* Bounds of the string specification.
MaxStringWrites == 3
MaxLongLen      == 130

LongString == [i \in 1..MaxLongLen |-> 97]

\* None, the empty string, short strings, and one whose length takes two
\* varint groups.
StringInputs == {None, <<>>, <<97>>, <<98>>, <<97, 98>>, LongString}

\* Lengths, deltas and characters for the bytes a reader is opened on.
StringBytes == {0, 1, 2, 3, 97}

StringInit ==
    /\ CodecIdle
    /\ wlog = <<>>
    /\ rlog = <<>>
    /\ \/ /\ \E mode \in StringStorage :
                df = [Datafile_init(<<>>, TRUE) EXCEPT !.string_storage = mode]
          /\ pc = "write"
       \/ /\ \E raw \in SeqsUpTo(StringBytes, MaxRawLen) : df = Datafile_init(raw, FALSE)
          /\ pc = "raw"

StringWrite ==
    /\ pc = "write"
    /\ Len(wlog) < MaxStringWrites
    /\ \E v \in StringInputs :
          LET w == write_string(df, v)
          IN /\ df' = w
             /\ wlog' = Append(wlog, [kind |-> "string", val |-> v,
                                      loc |-> tell(df), end |-> tell(w)])
    /\ UNCHANGED <<rlog, data, save, out, edits, pc>>

StringRead ==
    /\ \/ pc = "read" /\ Len(rlog) < Len(wlog)
       \/ pc = "raw" /\ Len(rlog) < MaxRawReads
    /\ df.err = NoErr
    /\ LET r == read_string(df)
       IN /\ df' = r
          /\ rlog' = Append(rlog, [kind |-> "string", val |-> r.val, err |-> r.err,
                                   loc |-> tell(df), end |-> tell(r),
                                   n |-> Len(r.log),
                                   logged |-> Len(r.log) > Len(df.log)])
    /\ UNCHANGED <<wlog, data, save, out, edits, pc>>

StringNext == StringWrite \/ CodecRewind \/ StringRead

SpecString == StringInit /\ [][StringNext]_vars

--------------------------------------------------------------------------
(* The document specification: a file is loaded (Savefile.__init__), the   *)
(* document is edited by the statements with which the command line edits  *)
(* it (cli.py, main), in any order, as a program that uses the package     *)
(* may, and save_to writes it out, in the mode of the document or in a     *)
(* mode its caller forces.                                                 *)

\* Bound on the number of edits between the load and the save.
MaxEdits == 2

\* The files to load
Files ==
    { CompressedFile, ExpandedFile, WorldFile, WorldExpanded, PlainFile,
      LongLengthFile, LongCountFile, TailRepeatFile, BadChecksumFile,
      BadMagicFile,
      NewVersionFile, InMissionFile, InMissionSecondFile, InMissionBothFile,
      InMissionShortFile, InMissionBadMagicFile, ShortOffsetFile,
      VersionZeroFile, BadMagicNewVersionFile, ShortMagicFile, MagicOnlyFile }

\* Arguments of the command line
DayArgs        == {5, 9}
WaterArgs      == {500, 70000}
FragmentArgs   == {9}
UpgradeArgs    == {{Latin1("up")}, {Latin1("cat"), Latin1("x")}}
KeyItemArgs    == {{Latin1("key")}, {Latin1("cat")}}
HatArgs        == {{Latin1("hat"), Latin1("cap")}}
WeaponArgs     == {<<Latin1("gun")>>}

\* a < b for str (by code point)
StrLess(a, b) ==
    \E i \in 1..(Len(a) + 1) :
        /\ \A j \in 1..(i - 1) : j <= Len(b) /\ a[j] = b[j]
        /\ \/ i > Len(a) /\ i <= Len(b)
           \/ i <= Len(a) /\ i <= Len(b) /\ a[i] < b[i]

\* sorted(S) for a set of str
RECURSIVE sorted(_)
sorted(S) ==
    IF S = {} THEN <<>>
    ELSE Bind(CHOOSE x \in S : \A y \in S \ {x} : StrLess(x, y), LAMBDA m :
            <<m>> \o sorted(S \ {m}))

\* set(l) for a list
set(l) == {l[i] : i \in DOMAIN l}

\* list.remove(x): the list without the first x
remove(l, x) ==
    Bind(CHOOSE i \in DOMAIN l : l[i] = x /\ \A j \in 1..(i - 1) : l[j] # x,
         LAMBDA i : SubSeq(l, 1, i - 1) \o SubSeq(l, i + 1, Len(l)))

RECURSIVE remove_all(_, _)
remove_all(l, names) ==
    IF names = <<>> THEN l
    ELSE remove_all(remove(l, Head(names)), Tail(names))

\* InventoryItem.ItemFlag
WEAPON  == 1
KEYITEM == 8

\* InventoryItem.create_new: the item is written to a Datafile of its own
\* and read back from it.
InventoryItem_create_new(item_id, item_name, item_flags) ==
    ReadT(seek(write_uint32(write_uint32(write_string(write_uint32(write_varint(
              write_uint8(write_chunk_header(Datafile_init(<<>>, TRUE),
                                             <<73, 116, 73, 110>>), 0),
              item_id), item_flags), item_name), 0), 0), 0),
          InventoryItem_init).val

\* Inventory.add_item with the id taken from the number of items.
Inventory_add_item_count(self, item_name, item_flags, flag_as_new) ==
    [self EXCEPT
        !.last_inventory_id = Len(self.items) + 1,
        !.items = Append(self.items,
                     InventoryItem_create_new(Len(self.items) + 1,
                                              item_name, item_flags)),
        !.new_items = IF flag_as_new
                      THEN Append(self.new_items, Len(self.items) + 1)
                      ELSE self.new_items]

\* Inventory.add_item
Inventory_add_item(self, item_name, item_flags, flag_as_new) ==
    [self EXCEPT
        !.last_inventory_id = self.last_inventory_id + 1,
        !.items = Append(self.items,
                     InventoryItem_create_new(self.last_inventory_id + 1,
                                              item_name, item_flags)),
        !.new_items = IF flag_as_new
                      THEN Append(self.new_items, self.last_inventory_id + 1)
                      ELSE self.new_items]

\* for item in items: inventory.add_item(item, flag, flag_as_new=...)
RECURSIVE add_items(_, _, _, _)
add_items(inventory, items, item_flags, flag_as_new) ==
    IF items = <<>> THEN inventory
    ELSE add_items(Inventory_add_item(inventory, Head(items), item_flags,
                                      flag_as_new),
                   Tail(items), item_flags, flag_as_new)

\* The document specification leaves the variables of the codec
\* specifications alone.
DocIdle == df = NoSave /\ wlog = <<>> /\ rlog = <<>>

Init ==
    /\ DocIdle
    /\ data \in Files
    /\ save = NoSave
    /\ out = NoSave
    /\ edits = <<>>
    /\ pc = "start"

\* Savefile(filename): the object, or the error the constructor raises
Load ==
    /\ pc = "start"
    /\ save' = Bind(Savefile_init(data), LAMBDA s :
                  IF s.err = NoErr THEN s ELSE [err |-> s.err])
    /\ pc' = IF save'.err = NoErr THEN "loaded" ELSE "failed"
    /\ UNCHANGED <<df, wlog, rlog, data, out, edits>>

\* An edit of main: the object changes and the edit joins the history
Edit(name, new_save) ==
    /\ pc = "loaded"
    /\ Len(edits) < MaxEdits
    /\ save' = new_save
    /\ edits' = Append(edits, name)
    /\ UNCHANGED <<df, wlog, rlog, data, out, pc>>

\* --day
SetDay ==
    \E day \in DayArgs :
        /\ pc = "loaded"
        /\ save.imh2.days_elapsed # day - 1
        /\ Edit("day", [save EXCEPT !.imh2.days_elapsed = day - 1])

\* --water, assigned to the fragments.
SetWater_fragments ==
    \E water \in WaterArgs :
        /\ pc = "loaded"
        /\ save.resources.water # water
        /\ Edit("water", [save EXCEPT !.resources.fragments = water])

\* --water
SetWater ==
    \E water \in WaterArgs :
        /\ pc = "loaded"
        /\ save.resources.water # water
        /\ Edit("water", [save EXCEPT !.resources.water = water])

\* --fragments
SetFragments ==
    \E fragments \in FragmentArgs :
        /\ pc = "loaded"
        /\ save.resources.fragments # fragments
        /\ Edit("fragments", [save EXCEPT !.resources.fragments = fragments])

\* --add-upgrade
AddUpgrade ==
    \E add_upgrade \in UpgradeArgs :
        /\ pc = "loaded"
        /\ add_upgrade \ set(save.ship.upgrades) # {}
        /\ Edit("add_upgrade",
                [save EXCEPT !.ship.upgrades =
                    save.ship.upgrades
                        \o sorted(add_upgrade \ set(save.ship.upgrades))])

\* --remove-upgrade
RemoveUpgrade ==
    \E remove_upgrade \in UpgradeArgs :
        /\ pc = "loaded"
        /\ remove_upgrade \cap set(save.ship.upgrades) # {}
        /\ Edit("remove_upgrade",
                [save EXCEPT !.ship.upgrades =
                    remove_all(save.ship.upgrades,
                               sorted(remove_upgrade \cap set(save.ship.upgrades)))])

\* --add-key-item, with and without --set-new-item
AddKeyItem ==
    \E add_key_item \in KeyItemArgs, set_new_item \in BOOLEAN :
        /\ pc = "loaded"
        /\ add_key_item \ {save.inventory.items[i].name :
                              i \in DOMAIN save.inventory.items} # {}
        /\ Edit("add_key_item",
                [save EXCEPT !.inventory =
                    add_items(save.inventory,
                              sorted(add_key_item \ {save.inventory.items[i].name :
                                         i \in DOMAIN save.inventory.items}),
                              KEYITEM, set_new_item)])

\* --remove-key-item
RemoveKeyItem ==
    \E remove_key_item \in KeyItemArgs :
        /\ pc = "loaded"
        /\ \E i \in DOMAIN save.inventory.items :
              save.inventory.items[i].name \in remove_key_item
        /\ Edit("remove_key_item",
                [save EXCEPT !.inventory.items =
                    SelectSeq(save.inventory.items,
                              LAMBDA item : item.name \notin remove_key_item)])

\* --add-hat, with and without --set-new-item
AddHat ==
    \E add_hat \in HatArgs, set_new_item \in BOOLEAN :
        /\ pc = "loaded"
        /\ add_hat \ set(save.inventory.hats) # {}
        /\ Edit("add_hat",
                [save EXCEPT
                    !.inventory.hats =
                        save.inventory.hats
                            \o sorted(add_hat \ set(save.inventory.hats)),
                    !.inventory.new_hats =
                        IF set_new_item
                        THEN save.inventory.new_hats
                                 \o sorted(add_hat \ set(save.inventory.hats))
                        ELSE save.inventory.new_hats])

\* --add-weapon, with and without --set-new-item
AddWeapon ==
    \E add_weapon \in WeaponArgs, set_new_item \in BOOLEAN :
        /\ pc = "loaded"
        /\ Edit("add_weapon",
                [save EXCEPT !.inventory =
                    add_items(save.inventory, add_weapon, WEAPON, set_new_item)])

\* save_to(filename, force_string_mode): the Datafile written, whose bytes
\* go to the file; _prep_write_data assigns the object's shops_offset.
SaveTo ==
    \E force_string_mode \in StringStorage :
        /\ pc = "loaded"
        /\ Bind(_prep_write_data(save, force_string_mode), LAMBDA p :
              /\ out' = [force_string_mode |-> force_string_mode, odf |-> p.odf]
              /\ save' = p.self)
        /\ pc' = "saved"
        /\ UNCHANGED <<df, wlog, rlog, data, edits>>

\* The bytes save_to has written
Saved_bytes == Written_bytes(out.odf)

Next ==
    \/ Load
    \/ SetDay
    \/ SetWater
    \/ SetFragments
    \/ AddUpgrade
    \/ RemoveUpgrade
    \/ AddKeyItem
    \/ RemoveKeyItem
    \/ AddHat
    \/ AddWeapon
    \/ SaveTo

Spec == Init /\ [][Next]_vars

--------------------------------------------------------------------------
(* The chunk specification: a Datafile is opened on four bytes and the     *)
(* payload of a record, and the record expected there (GameResources or    *)
(* InventoryItem) is constructed from it; or an InventoryItem is made by   *)
(* create_new.  A record that has been constructed is written to a new     *)
(* Datafile.  wlog holds the class; rlog the constructions.                *)

\* The letters of 'GaRe'
TagBytes == {71, 97, 82, 101}

\* All tags of these letters, and 'ItIn'
Tags == {t \in SeqsUpTo(TagBytes, 4) : Len(t) = 4} \cup {<<73, 116, 73, 110>>}

\* The constructor, the writer, the tag and a payload of the two classes
ChunkClasses ==
    { [name |-> "GameResources", init |-> GameResources_init,
       write_to |-> GameResources_write_to, tag |-> <<71, 97, 82, 101>>,
       payload |-> <<0, 3, 0, 0, 0, 100, 0, 0, 0>>],
      [name |-> "InventoryItem", init |-> InventoryItem_init,
       write_to |-> InventoryItem_write_to, tag |-> <<73, 116, 73, 110>>,
       payload |-> <<0, 7, 1, 0, 0, 0, 1, 0, 120, 0, 0, 0, 0, 0, 0, 0, 0>>] }

ChunkInit ==
    /\ CodecIdle
    /\ rlog = <<>>
    /\ \/ \E c \in ChunkClasses, t \in Tags :
             /\ df = Datafile_init(t \o c.payload, FALSE)
             /\ wlog = <<c>>
             /\ pc = "raw"
       \/ /\ df = Datafile_init(<<>>, TRUE)
          /\ wlog = <<CHOOSE c \in ChunkClasses : c.name = "InventoryItem">>
          /\ pc = "new"

\* <class>(df)
ChunkRead ==
    /\ pc = "raw"
    /\ df' = ReadT(df, wlog[1].init)
    /\ rlog' = <<[val |-> df'.val, err |-> df'.err, bytes |-> df.buf]>>
    /\ pc' = "read"
    /\ UNCHANGED <<wlog, data, save, out, edits>>

\* A further read after the constructor has raised its error
ChunkReadOn ==
    /\ pc = "read"
    /\ df.err # NoErr
    /\ df' = ReadT(df, uint8)
    /\ pc' = "read on"
    /\ UNCHANGED <<wlog, rlog, data, save, out, edits>>

\* InventoryItem.create_new
ChunkCreate ==
    /\ pc = "new"
    /\ \E item_id \in {1, 200}, item_name \in {<<120>>, <<103, 117, 110>>},
          item_flags \in {WEAPON, KEYITEM} :
          rlog' = <<[val |-> InventoryItem_create_new(item_id, item_name, item_flags),
                     err |-> NoErr, bytes |-> <<>>,
                     id |-> item_id, name |-> item_name, flags |-> item_flags]>>
    /\ pc' = "created"
    /\ UNCHANGED <<df, wlog, data, save, out, edits>>

\* write_to(odf), of a record that was constructed
ChunkWrite ==
    /\ pc \in {"read", "created"}
    /\ rlog[1].err = NoErr
    /\ df' = WriteT(Datafile_init(<<>>, TRUE), wlog[1].write_to, rlog[1].val)
    /\ pc' = "written"
    /\ UNCHANGED <<wlog, rlog, data, save, out, edits>>

ChunkNext == ChunkRead \/ ChunkReadOn \/ ChunkCreate \/ ChunkWrite

SpecChunk == ChunkInit /\ [][ChunkNext]_vars

\* C13: the constructor of a record reads four bytes; when they are not
\* the tag of its class it raises the error of the tag with the cursor
\* behind the four bytes and no field set, and a further read does nothing;
\* when they are, the fields are read.  write_to writes the tag the record
\* was read with, or the tag create_new gave it, and then the fields.
C13_TagCheck ==
    /\ pc \in {"read", "read on"} =>
          IF SubSeq(df.buf, 1, 4) # wlog[1].tag
          THEN /\ df.err = ExpectedChunkHeader
               /\ tell(df) = 4
               /\ rlog[1].err = ExpectedChunkHeader
               /\ rlog[1].val = SubSeq(df.buf, 1, 4)
          ELSE /\ df.err = NoErr
               /\ tell(df) = Len(df.buf)
               /\ rlog[1].val.header = wlog[1].tag
    /\ pc = "written" =>
          /\ df.err = NoErr
          /\ SubSeq(getvalue(df), 1, 4) = rlog[1].val.header
          /\ rlog[1].val.header = wlog[1].tag
          /\ rlog[1].bytes # <<>> => getvalue(df) = rlog[1].bytes
          /\ rlog[1].bytes = <<>> =>
                Bind(ReadT(seek(df, 0), wlog[1].init), LAMBDA r :
                    /\ r.err = NoErr
                    /\ r.val = rlog[1].val
                    /\ r.val.id = rlog[1].id
                    /\ r.val.name = rlog[1].name
                    /\ r.val.flags = rlog[1].flags)

\* A record expected as GameResources has been refused for its tag, which
\* differs from 'GaRe' in the last byte only, and a further read was tried.
C13_Witness ==
    /\ pc = "read on"
    /\ wlog[1].name = "GameResources"
    /\ SubSeq(df.buf, 1, 3) = <<71, 97, 82>>
    /\ df.err = ExpectedChunkHeader

--------------------------------------------------------------------------
(* The cloud specification: a WorldData record is constructed from bytes,  *)
(* its map is revealed and hidden as --reveal-map and --hide-map do, and   *)
(* it is written.  data holds the bytes, save the record, edits the        *)
(* operations, out the bytes written.                                      *)

\* Bound on the number of reveal and hide operations.
MaxCloudOps == 2

\* A map of which every second byte has clouds in its low half only
MixedMap == [i \in 1..MAP_DATA_SIZE |-> IF i % 2 = 0 THEN 15 ELSE 255]

CloudMaps == {Times(255, MAP_DATA_SIZE), Times(0, MAP_DATA_SIZE), MixedMap}

\* The bytes of an MtBG record: tag, zero, unknown_1, size_x, size_y, data
CloudBytes(unknown_1, size, map) ==
    <<77, 116, 66, 71, 0, unknown_1>> \o size \o map

\* size_x and size_y: 270 and 290, 16 and 2
CloudSizes == {<<14, 1, 0, 0, 34, 1, 0, 0>>, <<16, 0, 0, 0, 2, 0, 0, 0>>}

\* The bytes of PWDT records with no, one and two cloud data
WorldBytes ==
    {<<80, 87, 68, 84, 1, 0>>}
    \cup {<<80, 87, 68, 84, 1, 1>> \o CloudBytes(u, s, m) :
             u \in {0, 1}, s \in CloudSizes, m \in CloudMaps}
    \cup {<<80, 87, 68, 84, 1, 2>>
             \o CloudBytes(1, <<14, 1, 0, 0, 34, 1, 0, 0>>, m1)
             \o CloudBytes(0, <<16, 0, 0, 0, 2, 0, 0, 0>>, m2) :
             m1 \in CloudMaps, m2 \in CloudMaps}

CloudInit ==
    /\ DocIdle
    /\ data \in WorldBytes
    /\ save = NoSave
    /\ out = NoSave
    /\ edits = <<>>
    /\ pc = "start"

\* WorldData(df)
CloudLoad ==
    /\ pc = "start"
    /\ save' = ReadT(Datafile_init(data, FALSE), WorldData_init).val
    /\ pc' = "loaded"
    /\ UNCHANGED <<df, wlog, rlog, data, out, edits>>

\* --reveal-map
CloudReveal ==
    /\ pc = "loaded"
    /\ Len(edits) < MaxCloudOps
    /\ ~IsNone(save)
    /\ save' = WorldData_reveal(save)
    /\ edits' = Append(edits, "reveal")
    /\ UNCHANGED <<df, wlog, rlog, data, out, pc>>

\* --hide-map
CloudHide ==
    /\ pc = "loaded"
    /\ Len(edits) < MaxCloudOps
    /\ ~IsNone(save)
    /\ save' = WorldData_hide(save)
    /\ edits' = Append(edits, "hide")
    /\ UNCHANGED <<df, wlog, rlog, data, out, pc>>

\* world_data.write_to(odf)
CloudWrite ==
    /\ pc = "loaded"
    /\ out' = getvalue(WriteT(Datafile_init(<<>>, TRUE), WorldData_write_to, save))
    /\ pc' = "saved"
    /\ UNCHANGED <<df, wlog, rlog, data, save, edits>>

CloudNext == CloudLoad \/ CloudReveal \/ CloudHide \/ CloudWrite

SpecCloud == CloudInit /\ [][CloudNext]_vars

\* The record as it was constructed from the bytes
CloudOriginal == ReadT(Datafile_init(data, FALSE), WorldData_init).val

\* Every bit of the map is b (0 or 1), over as many bits as size_x times
\* size_y at least
EveryBit(cloud, b) ==
    /\ \A i \in DOMAIN cloud.data : cloud.data[i] = 255 * b
    /\ 8 * Len(cloud.data) >= cloud.size_x * cloud.size_y

\* C15: after reveal every bit of every cloud map is 0, after hide, also
\* after a reveal, every bit is 1, which for a record constructed with
\* every bit 1 is the record as constructed; after both, each map is as
\* long as it was and tag, zero, unknown_1, size_x and size_y of each cloud
\* data and the fields of the record are as constructed; the record is
\* written with the maps it then has.
C15_FogOfWar ==
    (pc \in {"loaded", "saved"} /\ edits # <<>>) =>
        Bind(CloudOriginal, LAMBDA orig :
            /\ DOMAIN save.cloud_data = DOMAIN orig.cloud_data
            /\ [save EXCEPT !.cloud_data = <<>>] = [orig EXCEPT !.cloud_data = <<>>]
            /\ \A i \in DOMAIN save.cloud_data :
                  /\ Len(save.cloud_data[i].data) = Len(orig.cloud_data[i].data)
                  /\ [save.cloud_data[i] EXCEPT !.data = <<>>]
                        = [orig.cloud_data[i] EXCEPT !.data = <<>>]
                  /\ edits[Len(edits)] = "reveal" => EveryBit(save.cloud_data[i], 0)
                  /\ edits[Len(edits)] = "hide" => EveryBit(save.cloud_data[i], 1)
            /\ (/\ edits[Len(edits)] = "hide"
                /\ \A i \in DOMAIN orig.cloud_data : EveryBit(orig.cloud_data[i], 1))
                  => save = orig
            /\ pc = "saved" =>
                  ReadT(Datafile_init(out, FALSE), WorldData_init).val = save)

\* A record of two cloud data, constructed with every bit 1, has been
\* revealed, hidden and written.
C15_Witness ==
    /\ pc = "saved"
    /\ edits = <<"reveal", "hide">>
    /\ Len(save.cloud_data) = 2
    /\ out = data
    /\ save.cloud_data[2].data[1] = 255

--------------------------------------------------------------------------
(* Crew leveling: CrewStatus.job_level_to, all_jobs_level_to, set_job_xp.  *)
(* The game data tables XP and JOBS are instances of the classes           *)
(* Experience and Job that gen_game_data.py writes into gamedata.py; the   *)
(* tables here are a small catalogue of that shape: one XP requirement per *)
(* level, and for every job one list of skills per level.                  *)

\* CrewStatus.JOB_ORDER
JOB_ORDER ==
    << Latin1("engineer"), Latin1("tank"), Latin1("hunter"),
       Latin1("boomer"), Latin1("flanker"), Latin1("sniper") >>

\* Experience(xp_reqs): level_to_xp[level] is level_to_xp[level + 1] here
XP == [level_to_xp |-> <<0, 100, 200, 300>>, max_xp |-> 300, max_level |-> 3]

\* The skill k of a job at a level: "<job>_<level><k>"
Skill(job, level, k) == Latin1(job) \o <<95, 48 + level, 97 + k>>

\* Job(name, label, skills): skills[skills_idx] is skills[skills_idx + 1] here
Job(name) ==
    [name |-> Latin1(name),
     skills |-> << <<Skill(name, 0, 0)>>,
                   <<Skill(name, 1, 0)>>,
                   <<Skill(name, 2, 0), Skill(name, 2, 1)>>,
                   <<Skill(name, 3, 0)>> >>]

JOBS ==
    << <<Latin1("engineer"), Job("engineer")>>, <<Latin1("tank"), Job("tank")>>,
       <<Latin1("hunter"), Job("hunter")>>, <<Latin1("boomer"), Job("boomer")>>,
       <<Latin1("flanker"), Job("flanker")>>, <<Latin1("sniper"), Job("sniper")>> >>

RuntimeError == "RuntimeError"
ValueError   == "ValueError"

\* The result of a method of an object: the object, and what was raised.
Done(self) == [self |-> self, err |-> NoErr]
Raised(self, e) == [self |-> self, err |-> e]

\* for skill in level_skills: if skill in cur_cog_selections: remove
RECURSIVE job_level_to_skills(_, _, _, _)
job_level_to_skills(r, level_skills, i, cur_cog_selections) ==
    IF r.err # NoErr \/ i > Len(level_skills) THEN r
    ELSE IF level_skills[i] \in cur_cog_selections
    THEN IF level_skills[i] \in set(r.self.cog_selections)
         THEN job_level_to_skills(
                 Done([r.self EXCEPT !.cog_selections = remove(@, level_skills[i])]),
                 level_skills, i + 1, cur_cog_selections)
         ELSE Raised(r.self, ValueError)
    ELSE job_level_to_skills(r, level_skills, i + 1, cur_cog_selections)

\* for skills_idx in range(job.level, to_level, -1)
RECURSIVE job_level_to_levels(_, _, _, _, _)
job_level_to_levels(r, job_info, skills_idx, to_level, cur_cog_selections) ==
    IF r.err # NoErr \/ skills_idx <= to_level THEN r
    ELSE IF skills_idx + 1 > Len(job_info.skills) THEN Raised(r.self, IndexError)
    ELSE job_level_to_levels(
            job_level_to_skills(r, job_info.skills[skills_idx + 1], 1,
                                cur_cog_selections),
            job_info, skills_idx - 1, to_level, cur_cog_selections)

\* The loop over the levels left out: the level stays (0 for a new job).
set_job_xp_level_kept(cur, level, to_xp) == IF cur < 0 THEN 0 ELSE cur

\* for level in range(from, XP.max_level+1): if to_xp >= level_to_xp[level]
RECURSIVE set_job_xp_level(_, _, _)
set_job_xp_level(cur, level, to_xp) ==
    IF level > XP.max_level THEN cur
    ELSE set_job_xp_level(IF to_xp >= XP.level_to_xp[level + 1] THEN level ELSE cur,
                          level + 1, to_xp)

\* The new job put behind the jobs the member has.
CrewStatus_new_jobs_appended(jobs, new_job, i, new_jobs) ==
    Append(jobs, <<new_job.name, new_job>>)

\* for new_job_name in CrewStatus.JOB_ORDER, adding new_job in its place
RECURSIVE CrewStatus_new_jobs(_, _, _, _)
CrewStatus_new_jobs(jobs, new_job, i, new_jobs) ==
    IF i > Len(JOB_ORDER) THEN new_jobs
    ELSE CrewStatus_new_jobs(jobs, new_job, i + 1,
            IF DictHas(jobs, JOB_ORDER[i])
            THEN DictSet(new_jobs, JOB_ORDER[i], DictGet(jobs, JOB_ORDER[i]))
            ELSE IF JOB_ORDER[i] = new_job.name
            THEN DictSet(new_jobs, JOB_ORDER[i], new_job)
            ELSE new_jobs)

\* CrewStatus.job_level_to without the test of allow_downlevel.
job_level_to_always(self, job_name, to_level0, allow_downlevel) ==
    LET to_level == IF to_level0 < XP.max_level THEN to_level0 ELSE XP.max_level
    IN  IF ~DictHas(JOBS, job_name) THEN Raised(self, RuntimeError)
        ELSE IF DictHas(self.jobs, job_name)
        THEN Bind(DictGet(self.jobs, job_name), LAMBDA job :
               IF job.level = to_level THEN Done(self)
               ELSE Bind(IF job.level < to_level THEN Done(self)
                         ELSE job_level_to_levels(Done(self), DictGet(JOBS, job_name),
                                 job.level, to_level, set(self.cog_selections)),
                         LAMBDA r :
                    IF r.err # NoErr THEN r
                    ELSE Done([r.self EXCEPT !.jobs = DictSet(@, job_name,
                            [job EXCEPT !.level = to_level,
                                        !.xp = XP.level_to_xp[to_level + 1]])])))
        ELSE IF to_level = 0 THEN Done(self)
        ELSE Done([self EXCEPT !.jobs = CrewStatus_new_jobs(self.jobs,
                    [JobStatus(job_name) EXCEPT !.level = to_level,
                                                !.xp = XP.level_to_xp[to_level + 1]],
                    1, <<>>)])

\* CrewStatus.job_level_to
job_level_to(self, job_name, to_level0, allow_downlevel) ==
    LET to_level == IF to_level0 < XP.max_level THEN to_level0 ELSE XP.max_level
    IN  IF ~DictHas(JOBS, job_name) THEN Raised(self, RuntimeError)
        ELSE IF DictHas(self.jobs, job_name)
        THEN Bind(DictGet(self.jobs, job_name), LAMBDA job :
               IF job.level = to_level THEN Done(self)
               ELSE IF job.level < to_level
               THEN Done([self EXCEPT !.jobs = DictSet(@, job_name,
                            [job EXCEPT !.level = to_level,
                                        !.xp = XP.level_to_xp[to_level + 1]])])
               ELSE IF allow_downlevel
               THEN Bind(job_level_to_levels(Done(self), DictGet(JOBS, job_name),
                                 job.level, to_level, set(self.cog_selections)),
                         LAMBDA r :
                    IF r.err # NoErr THEN r
                    ELSE Done([r.self EXCEPT !.jobs = DictSet(@, job_name,
                            [job EXCEPT !.level = to_level,
                                        !.xp = XP.level_to_xp[to_level + 1]])]))
               ELSE Done(self))
        ELSE IF to_level = 0 THEN Done(self)
        ELSE Done([self EXCEPT !.jobs = CrewStatus_new_jobs(self.jobs,
                    [JobStatus(job_name) EXCEPT !.level = to_level,
                                                !.xp = XP.level_to_xp[to_level + 1]],
                    1, <<>>)])

\* CrewStatus.all_jobs_level_to: for job_name in self.JOB_ORDER
RECURSIVE all_jobs_level_to(_, _, _, _)
all_jobs_level_to(r, i, to_level, allow_downlevel) ==
    IF r.err # NoErr \/ i > Len(JOB_ORDER) THEN r
    ELSE all_jobs_level_to(job_level_to(r.self, JOB_ORDER[i], to_level, allow_downlevel),
                           i + 1, to_level, allow_downlevel)

\* CrewStatus.set_job_xp without the refusal to decrease.
set_job_xp_decreasing(self, job_name, to_xp0) ==
    LET to_xp == IF to_xp0 < XP.max_xp THEN to_xp0 ELSE XP.max_xp
    IN  IF ~DictHas(JOBS, job_name) THEN Raised(self, RuntimeError)
        ELSE IF DictHas(self.jobs, job_name)
        THEN Bind(DictGet(self.jobs, job_name), LAMBDA job :
               IF job.xp = to_xp THEN Done(self)
               ELSE Done([self EXCEPT !.jobs = DictSet(@, job_name,
                        [job EXCEPT !.xp = to_xp,
                                    !.level = set_job_xp_level(job.level, job.level,
                                                               to_xp)])]))
        ELSE IF to_xp = 0 THEN Done(self)
        ELSE Done([self EXCEPT !.jobs = CrewStatus_new_jobs(self.jobs,
                    [JobStatus(job_name) EXCEPT !.xp = to_xp,
                        !.level = set_job_xp_level(-1, 0, to_xp)],
                    1, <<>>)])

\* CrewStatus.set_job_xp
set_job_xp(self, job_name, to_xp0) ==
    LET to_xp == IF to_xp0 < XP.max_xp THEN to_xp0 ELSE XP.max_xp
    IN  IF ~DictHas(JOBS, job_name) THEN Raised(self, RuntimeError)
        ELSE IF DictHas(self.jobs, job_name)
        THEN Bind(DictGet(self.jobs, job_name), LAMBDA job :
               IF job.xp = to_xp THEN Done(self)
               ELSE IF job.xp > to_xp THEN Raised(self, RuntimeError)
               ELSE Done([self EXCEPT !.jobs = DictSet(@, job_name,
                        [job EXCEPT !.xp = to_xp,
                                    !.level = set_job_xp_level(job.level, job.level,
                                                               to_xp)])]))
        ELSE IF to_xp = 0 THEN Done(self)
        ELSE Done([self EXCEPT !.jobs = CrewStatus_new_jobs(self.jobs,
                    [JobStatus(job_name) EXCEPT !.xp = to_xp,
                        !.level = set_job_xp_level(-1, 0, to_xp)],
                    1, <<>>)])

\* CrewStatus.create_new(name)
CrewStatus_create_new(name) ==
    CrewStatus_init(
        seek(write_uint32(write_uint32(write_uint32(write_varint(
             write_uint8(write_uint8(write_string(write_uint8(
             write_chunk_header(Datafile_init(<<>>, TRUE), <<80, 101, 114, 115>>),
             2), name), 0), 0), 0), 0), 0), 0), 0)).val

--------------------------------------------------------------------------
(* Specification of the crew operations: a CrewStatus is read from the     *)
(* bytes of a 'Pers' chunk or created new, then levelled.  save holds the  *)
(* CrewStatus, out the last call with the object it was made on.           *)

MaxCrewOps == 2

\* jobs of a crew member on file: tank and sniper, at a level or absent (-1)
CrewJobs(tank_level, sniper_level) ==
    (IF tank_level < 0 THEN <<>>
     ELSE << <<Latin1("tank"),
               [name |-> Latin1("tank"), level |-> tank_level,
                xp |-> IF tank_level < XP.max_level
                       THEN XP.level_to_xp[tank_level + 1] + 50
                       ELSE XP.max_xp]>> >>)
    \o
    (IF sniper_level < 0 THEN <<>>
     ELSE << <<Latin1("sniper"),
               [name |-> Latin1("sniper"), level |-> sniper_level,
                xp |-> XP.level_to_xp[sniper_level + 1]]>> >>)

CrewCogSelections ==
    { <<>>,
      << Skill("sniper", 2, 0) >>,
      << Skill("sniper", 3, 0), Skill("tank", 1, 0), Skill("sniper", 2, 1),
         Skill("sniper", 1, 0), Skill("sniper", 0, 0) >>,
      << Skill("tank", 3, 0), Skill("sniper", 2, 0), Skill("tank", 2, 1),
         Latin1("up"), Skill("engineer", 1, 0) >> }

CrewObjects ==
    { [BaseCrewStatus(Latin1("ann")) EXCEPT !.jobs = CrewJobs(t, s),
                                            !.cog_selections = c] :
        t \in {-1, 3}, s \in {-1, 0, 2, 3}, c \in CrewCogSelections }

CrewBytes ==
    { getvalue(CrewStatus_write_to(Datafile_init(<<>>, TRUE), o)) : o \in CrewObjects }

JobArgs   == { Latin1("sniper"), Latin1("tank"), Latin1("x") }
LevelArgs == 0..(XP.max_level + 1)
XpArgs    == { 0, 50, 250, 400 }

CrewInit ==
    /\ DocIdle
    /\ data = <<>>
    /\ save = NoSave
    /\ out = NoSave
    /\ edits = <<>>
    /\ pc = "new"

\* CrewStatus(df) on the bytes of a chunk
CrewLoad ==
    /\ pc = "new"
    /\ \E bytes \in CrewBytes :
         /\ data' = bytes
         /\ save' = CrewStatus_init(Datafile_init(bytes, FALSE)).val
    /\ pc' = "crew"
    /\ UNCHANGED <<df, wlog, rlog, out, edits>>

CrewCreate ==
    /\ pc = "new"
    /\ \E name \in { Latin1("ann"), Latin1("bob") } :
         save' = CrewStatus_create_new(name)
    /\ pc' = "crew"
    /\ UNCHANGED <<df, wlog, rlog, data, out, edits>>

CrewCall(op, job_name, arg, allow_downlevel, r) ==
    /\ save' = r.self
    /\ out' = [op |-> op, job_name |-> job_name, arg |-> arg,
               allow_downlevel |-> allow_downlevel, before |-> save, err |-> r.err]
    /\ edits' = Append(edits, op)
    /\ UNCHANGED <<df, wlog, rlog, data, pc>>

JobLevelTo ==
    /\ pc = "crew"
    /\ Len(edits) < MaxCrewOps
    /\ \E job_name \in JobArgs, to_level \in LevelArgs, allow_downlevel \in BOOLEAN :
         CrewCall("job_level_to", job_name, to_level, allow_downlevel,
                  job_level_to(save, job_name, to_level, allow_downlevel))

AllJobsLevelTo ==
    /\ pc = "crew"
    /\ Len(edits) < MaxCrewOps
    /\ \E to_level \in LevelArgs, allow_downlevel \in BOOLEAN :
         CrewCall("all_jobs_level_to", None, to_level, allow_downlevel,
                  all_jobs_level_to(Done(save), 1, to_level, allow_downlevel))

SetJobXp ==
    /\ pc = "crew"
    /\ Len(edits) < MaxCrewOps
    /\ \E job_name \in JobArgs, to_xp \in XpArgs :
         CrewCall("set_job_xp", job_name, to_xp, FALSE,
                  set_job_xp(save, job_name, to_xp))

CrewNext ==
    \/ CrewLoad
    \/ CrewCreate
    \/ JobLevelTo
    \/ AllJobsLevelTo
    \/ SetJobXp

SpecCrew == CrewInit /\ [][CrewNext]_vars
--------------------------------------------------------------------------
(* The scanner specification: a Datafile is opened on bytes that begin     *)
(* with string fields, which read_string reads, and go on with data that   *)
(* UnparsedData scans.  Each round of the loop of UnparsedData.__init__    *)
(* is a step; save holds the UnparsedData object, out the last round with  *)
(* the Datafile and the object it started from.                            *)

MaxScanLen == 4

\* Bytes of the scanned data: zero, lengths and second varints, a newline,
\* a letter, a continuation byte.
ScanBytes == {0, 2, 3, 10, 97, 128}

\* String fields before the scanned data, and how many they are: one
\* string (the guess is UNKNOWN); a string, a reference to it and another
\* string (COMPRESSED); a string twice in full (EXPANDED).
ScanHeads ==
    { [bytes |-> <<2, 0, 97, 97>>, strings |-> 1],
      [bytes |-> <<2, 0, 97, 97, 2, 3, 2, 0, 45, 45>>, strings |-> 3],
      [bytes |-> <<2, 0, 97, 97, 2, 0, 97, 97>>, strings |-> 2] }

RECURSIVE ReadStrings(_, _)
ReadStrings(d, n) == IF n = 0 THEN d ELSE ReadStrings(read_string(d), n - 1)

ScanIdle == wlog = <<>> /\ rlog = <<>> /\ edits = <<>>

ScanInit ==
    /\ ScanIdle
    /\ \E head \in ScanHeads, tail \in SeqsUpTo(ScanBytes, MaxScanLen) :
          /\ data = head.bytes \o tail
          /\ df = ReadStrings(Datafile_init(head.bytes \o tail, FALSE), head.strings)
    /\ save = NoSave
    /\ out = NoSave
    /\ pc = "start"

\* UnparsedData.__init__ up to the loop
ScanOpen ==
    /\ pc = "start"
    /\ save' = [start_pos |-> tell(df), last_pos |-> Len(df.data),
                categorized |-> <<>>, string_storage_guess |-> UNKNOWN,
                remaining_cur_pos |-> tell(df), remaining_prev_pos |-> tell(df)]
    /\ pc' = "scan"
    /\ UNCHANGED <<df, wlog, rlog, data, out, edits>>

\* One round of the loop: if not self._check_remaining_string(): cur_pos += 1
ScanCheck ==
    /\ pc = "scan"
    /\ save.remaining_cur_pos < save.last_pos
    /\ Bind(_check_remaining_string(df, save), LAMBDA r :
          /\ df' = r
          /\ out' = [df |-> df, u |-> save, err |-> r.err,
                     found |-> IF r.err = NoErr THEN r.val.found ELSE FALSE]
          /\ save' = IF r.err # NoErr THEN save
                     ELSE IF r.val.found THEN r.val.u
                     ELSE [r.val.u EXCEPT !.remaining_cur_pos = @ + 1]
          /\ pc' = IF r.err # NoErr THEN "failed" ELSE "scan")
    /\ UNCHANGED <<wlog, rlog, data, edits>>

\* The end of the loop: the data after the last string, and the seek
ScanClose ==
    /\ pc = "scan"
    /\ save.remaining_cur_pos >= save.last_pos
    /\ Bind(UnparsedData_loop(df, save), LAMBDA r :
          /\ df' = r
          /\ save' = r.val)
    /\ pc' = "done"
    /\ UNCHANGED <<wlog, rlog, data, out, edits>>

ScanNext ==
    \/ ScanOpen
    \/ ScanCheck
    \/ ScanClose

SpecScan == ScanInit /\ [][ScanNext]_vars
--------------------------------------------------------------------------
(* The region specification: the document specification on the files that  *)
(* have a skippable region, with the edits that add strings and bytes      *)
(* before the region.                                                      *)

\* The files with a skippable region
RegionFiles ==
    { WorldFile, WorldExpanded, ShortOffsetFile, RegionStringsFile,
      RegionTargetFile }

RegionInit ==
    /\ DocIdle
    /\ data \in RegionFiles
    /\ save = NoSave
    /\ out = NoSave
    /\ edits = <<>>
    /\ pc = "start"

RegionNext ==
    \/ Load
    \/ SetWater
    \/ AddUpgrade
    \/ AddKeyItem
    \/ AddHat
    \/ SaveTo

SpecRegion == RegionInit /\ [][RegionNext]_vars
--------------------------------------------------------------------------
(* Savefile.unlock_crew.  CREW is a table of Crew objects of the game      *)
(* data: each has a name, a default job of JOBS and a default hat, and is  *)
(* filed under its name and under a second key that users may give         *)
(* instead of it.                                                          *)

Crew(name, default_job, default_hat) ==
    [name |-> Latin1(name), default_job |-> DictGet(JOBS, Latin1(default_job)),
     default_hat |-> Latin1(default_hat)]

CREW ==
    << <<Latin1("ann"), Crew("ann", "sniper", "hat")>>,
       <<Latin1("bob"), Crew("bob", "sniper", "cap")>>,
       <<<<98, 111>>,   Crew("bob", "sniper", "cap")>>,
       <<Latin1("cat"), Crew("cat", "tank", "hat")>> >>

\* Loadout.create_new(name, items_by_id): the loadout is written to a
\* Savefile of its own and read back from it.
Loadout_create_new(name) ==
    ReadT(seek(write_uint32(write_string(write_string(write_string(write_string(
              write_varint(write_string(write_string(write_uint8(
              write_chunk_header(Datafile_init(<<>>, TRUE), <<67, 114, 76, 111>>),
              0), name), None), 3), None), None), None), None), 0), 0),
          Loadout_init).val

\* The slots with name taken out of the list instead of blanked.
unlock_crew_shop_removed(shop, name) ==
    [shop EXCEPT !.available_crew = SelectSeq(@, LAMBDA x : x # name)]

\* for idx in range(len(shop.available_crew)): blank the slots with name
unlock_crew_shop(shop, name) ==
    [shop EXCEPT !.available_crew =
        [idx \in DOMAIN shop.available_crew |->
            IF shop.available_crew[idx] = name THEN None
            ELSE shop.available_crew[idx]]]

\* for shop in self.shops
unlock_crew_shops(shops, name) ==
    [shops EXCEPT !.shops =
        [i \in DOMAIN shops.shops |->
            <<shops.shops[i][1], unlock_crew_shop(shops.shops[i][2], name)>>]]

\* if self.rede is not None: ...
unlock_crew_rede(rede, name) ==
    IF IsNone(rede) THEN rede
    ELSE Bind(IF name \in set(rede.items)
              THEN [rede EXCEPT !.items = remove(@, name)]
              ELSE rede, LAMBDA r :
            IF Len(r.items) = 0 THEN [r EXCEPT !.unknown = 0] ELSE r)

\* unlock_crew: header, hats and loadout
unlock_crew_loadout(self, crew_info, flag_as_new) ==
    [self EXCEPT
        !.header.crew = Append(@, crew_info.name),
        !.inventory.hats =
            IF crew_info.default_hat \notin set(self.inventory.hats)
            THEN Append(@, crew_info.default_hat) ELSE @,
        !.inventory.new_hats =
            IF crew_info.default_hat \notin set(self.inventory.hats) /\ flag_as_new
            THEN Append(@, crew_info.default_hat) ELSE @,
        !.inventory.loadouts =
            DictSet(@, crew_info.name,
                    [Loadout_create_new(crew_info.name)
                        EXCEPT !.cur_hat = crew_info.default_hat]),
        !.crew_list = Append(@, crew_info.name)]

\* Savefile.unlock_crew without the test for a member of the crew list.
unlock_crew_again(self, crew_name, level, flag_as_new) ==
    IF ~DictHas(CREW, crew_name) THEN Raised(self, RuntimeError)
    ELSE Bind(DictGet(CREW, crew_name), LAMBDA crew_info :
        Bind([unlock_crew_loadout(self, crew_info, flag_as_new) EXCEPT
                 !.rede = unlock_crew_rede(@, crew_info.name),
                 !.shops = unlock_crew_shops(@, crew_info.name)],
             LAMBDA s :
            Bind(job_level_to(CrewStatus_create_new(crew_info.name),
                              crew_info.default_job.name, level, FALSE),
                 LAMBDA crew :
                IF crew.err # NoErr THEN Raised(s, crew.err)
                ELSE Done([s EXCEPT !.crew.crew =
                              DictSet(@, crew_info.name, crew.self)]))))

\* Savefile.unlock_crew
unlock_crew(self, crew_name, level, flag_as_new) ==
    IF ~DictHas(CREW, crew_name) THEN Raised(self, RuntimeError)
    ELSE Bind(DictGet(CREW, crew_name), LAMBDA crew_info :
        IF crew_info.name \in set(self.crew_list) THEN Done(self)
        ELSE Bind([unlock_crew_loadout(self, crew_info, flag_as_new) EXCEPT
                      !.rede = unlock_crew_rede(@, crew_info.name),
                      !.shops = unlock_crew_shops(@, crew_info.name)],
                  LAMBDA s :
                 Bind(job_level_to(CrewStatus_create_new(crew_info.name),
                                   crew_info.default_job.name, level, FALSE),
                      LAMBDA crew :
                     IF crew.err # NoErr THEN Raised(s, crew.err)
                     ELSE Done([s EXCEPT !.crew.crew =
                                   DictSet(@, crew_info.name, crew.self)]))))

--------------------------------------------------------------------------
(* The unlock specification: a file is loaded, crew members are unlocked   *)
(* and the document is saved.  out holds the last call of unlock_crew with *)
(* the document it was made on, or the Datafile of the save.               *)

MaxUnlockOps == 2

\* A document whose recruitment pool and shops offer two crew members: the
\* first shop both, the second one of them twice and a third name.
UnlockDoc ==
    [BaseDoc EXCEPT
        !.rede = BaseReDe(<<Latin1("bob"), Latin1("cat")>>),
        !.shops = [shops |->
            << <<Latin1("bar"),
                 BaseShop(Latin1("bar"), 1, <<Latin1("bob"), Latin1("cat")>>)>>,
               <<Latin1("town"),
                 BaseShop(Latin1("town"), 1,
                          <<Latin1("cat"), None, Latin1("x"), Latin1("cat")>>)>>,
               <<Latin1("up"), BaseShop(Latin1("up"), 0, <<>>)>> >>]]

UnlockFile == FileOf(WithTail(UnlockDoc, CompressedTail(UnlockDoc)), COMPRESSED)

UnlockFiles == {CompressedFile, ExpandedFile, PlainFile, UnlockFile}

\* Names of CREW, the second key of one of them, and a name CREW lacks
UnlockArgs == {Latin1("ann"), Latin1("bob"), <<98, 111>>, Latin1("cat"), Latin1("x")}

UnlockLevels == {0, 2, XP.max_level + 1}

UnlockInit ==
    /\ DocIdle
    /\ data \in UnlockFiles
    /\ save = NoSave
    /\ out = NoSave
    /\ edits = <<>>
    /\ pc = "start"

\* save.unlock_crew(crew_name, level, flag_as_new)
UnlockCrew ==
    \E crew_name \in UnlockArgs, level \in UnlockLevels, flag_as_new \in BOOLEAN :
        /\ pc = "loaded"
        /\ Len(edits) < MaxUnlockOps
        /\ Bind(unlock_crew(save, crew_name, level, flag_as_new), LAMBDA r :
              /\ save' = r.self
              /\ out' = [op |-> "unlock_crew", crew_name |-> crew_name,
                         level |-> level, flag_as_new |-> flag_as_new,
                         before |-> save, err |-> r.err])
        /\ edits' = Append(edits, crew_name)
        /\ UNCHANGED <<df, wlog, rlog, data, pc>>

UnlockNext == Load \/ UnlockCrew \/ SaveTo

SpecUnlock == UnlockInit /\ [][UnlockNext]_vars
--------------------------------------------------------------------------
(* The shop specification: a ShopData is read from the bytes of a 'PBar'   *)
(* chunk and written again.  save holds the object, out the Datafile       *)
(* written.                                                                *)

\* The crew entries of a shop on file: None is a slot the game has blanked
ShopCrewEntries == {None, Latin1("bob"), Latin1("cat")}

MaxShopCrew == 2

\* The purchased items of a shop on file
ShopPurchases == { <<>>, <<[item |-> Latin1("cap"), qty |-> 2]>> }

\* The bytes of a chunk with the flag has_crew, the byte after it and the
\* crew entries, as a writer in the given mode lays them out; a flag of 0
\* is followed by the purchased items at once.
ShopChunk(mode, has_crew, crew_unknown_zero, available_crew, purchased_items) ==
    getvalue(
        write_uint32(
            WriteT(IF has_crew = 0
                   THEN write_uint8(write_uint8(write_uint8(write_chunk_header(
                            [Datafile_init(<<>>, TRUE) EXCEPT !.string_storage = mode],
                            <<80, 66, 97, 114>>), 1), 0), 0)
                   ELSE WriteT(write_uint8(write_uint8(write_uint8(write_uint8(
                            write_chunk_header(
                              [Datafile_init(<<>>, TRUE) EXCEPT !.string_storage = mode],
                              <<80, 66, 97, 114>>), 1), 0), has_crew),
                            crew_unknown_zero),
                          ListOf(varint, string), available_crew),
                   ListOf(varint, Tuple(<<F("item", string), F("qty", uint32)>>)),
                   purchased_items),
            9))

ShopChunks ==
    { ShopChunk(mode, has_crew, z, c, p) :
        mode \in {COMPRESSED, EXPANDED}, has_crew \in {1, 2}, z \in {0, 7},
        c \in SeqsUpTo(ShopCrewEntries, MaxShopCrew), p \in ShopPurchases }
    \cup { ShopChunk(COMPRESSED, 0, 0, <<>>, p) : p \in ShopPurchases }

ShopInit ==
    /\ DocIdle
    /\ data \in ShopChunks
    /\ save = NoSave
    /\ out = NoSave
    /\ edits = <<>>
    /\ pc = "start"

\* ShopData(df, name)
ShopRead ==
    /\ pc = "start"
    /\ Bind(ShopData_init(Datafile_init(data, FALSE), Latin1("bar")), LAMBDA r :
          /\ save' = [shop |-> r.val, err |-> r.err,
                      string_storage |-> get_string_storage_guess(r)]
          /\ pc' = IF r.err = NoErr THEN "read" ELSE "failed")
    /\ UNCHANGED <<df, wlog, rlog, data, out, edits>>

\* shop.write_to(odf), in the mode of the bytes read
ShopWrite ==
    /\ pc = "read"
    /\ out' = ShopData_write_to(
                 [Datafile_init(<<>>, TRUE) EXCEPT
                     !.string_storage = save.string_storage], save.shop)
    /\ pc' = "written"
    /\ UNCHANGED <<df, wlog, rlog, data, save, edits>>

ShopNext == ShopRead \/ ShopWrite

SpecShop == ShopInit /\ [][ShopNext]_vars
--------------------------------------------------------------------------
(* The checksum specification: the document specification on files of      *)
(* which one byte, of the stored checksum or of what it covers, has been   *)
(* changed after the file was written.                                     *)

\* The files as written
ChecksumBases == { CompressedFile, ExpandedFile, PlainFile, WorldFile }

\* What is added (modulo 256) to the byte changed; 0 leaves the file as it is
DamageDeltas == {0, 1, 128, 255}

\* The offsets of the byte changed in bytes: the four of the checksum, the
\* first behind it (of the magic of the header chunk), one in the header
\* chunk and the last of the file
DamageOffsets(bytes) == {5, 6, 7, 8, 9, 13, Len(bytes) - 1}

\* bytes with delta added to the byte at offset i
Damaged(bytes, i, delta) == Patched(bytes, i, (bytes[i + 1] + delta) % 256)

ChecksumFiles ==
    UNION { Bind(file, LAMBDA f :
                { Damaged(f, i, delta) : i \in DamageOffsets(f),
                                         delta \in DamageDeltas })
            : file \in ChecksumBases }

ChecksumInit ==
    /\ DocIdle
    /\ data \in ChecksumFiles
    /\ save = NoSave
    /\ out = NoSave
    /\ edits = <<>>
    /\ pc = "start"

ChecksumNext ==
    \/ Load
    \/ SetDay
    \/ SaveTo

SpecChecksum == ChecksumInit /\ [][ChecksumNext]_vars
--------------------------------------------------------------------------
(* Properties of the varint specification *)

\* C7: for every n with 0 <= n < 2^28, write_varint(n) emits at most 4
\* bytes, and read_varint on the bytes written returns n and consumes
\* exactly the bytes write_varint emitted for it.
C7_VarintRoundTrip ==
    /\ \A i \in 1..Len(wlog) :
          wlog[i].kind = "varint" /\ wlog[i].val < TwoPow28
             => wlog[i].end - wlog[i].loc <= 4
    /\ pc = "read" =>
          \A i \in 1..Len(rlog) :
             wlog[i].kind = "varint" /\ wlog[i].val < TwoPow28
                => rlog[i] = [kind |-> "varint", val |-> wlog[i].val, err |-> NoErr,
                              loc |-> wlog[i].loc, end |-> wlog[i].end]

\* A four-group value and a three-group value were written and both read back.
C7_Witness ==
    /\ pc = "read"
    /\ Len(rlog) = 2
    /\ wlog[1].val = TwoPow28 - 1
    /\ wlog[2].val = 16384
    /\ rlog[2].err = NoErr

\* C8: a varint whose first four bytes all carry the continuation bit is not
\* decoded: read_varint raises the runaway error; and no varint is decoded
\* from more than 4 bytes.
C8_RunawayVarint ==
    \A i \in 1..Len(rlog) :
       LET e == rlog[i]
       IN /\ ( /\ e.kind = "varint"
               /\ e.loc + 4 <= Len(df.buf)
               /\ \A k \in 1..4 : df.buf[e.loc + k] >= 128 )
             => e.err = RunawayVarint
          /\ e.kind = "varint" /\ e.err = NoErr => e.end - e.loc <= 4

\* Five bytes with the continuation bit on the first four were read.
C8_Witness ==
    /\ pc = "raw"
    /\ Len(df.buf) = 5
    /\ \A k \in 1..4 : df.buf[k] = 255
    /\ df.buf[5] = 1
    /\ Len(rlog) = 1
    /\ rlog[1].err = RunawayVarint

--------------------------------------------------------------------------
(* Properties of the string specification *)

\* The groups of a varint, written out independently of write_varint.
RECURSIVE VarintGroups(_)
VarintGroups(n) ==
    IF n < 128 THEN <<n>> ELSE <<128 + (n % 128)>> \o VarintGroups(n \div 128)

\* The bytes of the i-th written field.
Written(i) == SubSeq(df.buf, wlog[i].loc + 1, wlog[i].end)

\* C6: String back-reference.  When the same non-empty text s is written a
\* first time (field i) and again (field j): field i is the length, a zero
\* and the text; in compressed mode field j is the length and a delta D > 0
\* that leads from the offset of D back to the first byte of the text in
\* field i, with no text; in expanded mode field j is again the length, a
\* zero and the text.  Reading the output back returns s for field j and
\* consumes exactly the bytes of that field.
C6_StringBackReference ==
    \A i, j \in 1..Len(wlog) :
       ( /\ i < j
         /\ wlog[i].kind = "string"
         /\ wlog[i].val = wlog[j].val
         /\ wlog[i].val \notin {None, <<>>}
         /\ \A k \in 1..(i - 1) : wlog[k].val # wlog[i].val )
       =>
       LET s  == wlog[i].val
           Lb == VarintGroups(Len(s))
       IN /\ df.string_storage \in {COMPRESSED, EXPANDED}
          /\ Written(i) = Lb \o <<0>> \o s
          /\ df.string_storage = COMPRESSED =>
                \E D \in 1..Len(df.buf) :
                   /\ Written(j) = Lb \o VarintGroups(D)
                   /\ (wlog[j].loc + Len(Lb)) - D = wlog[i].loc + Len(Lb) + 1
          /\ df.string_storage = EXPANDED => Written(j) = Lb \o <<0>> \o s
          /\ ( /\ pc = "read"
               /\ Len(rlog) >= j
               /\ \A k \in 1..j : wlog[k].val # <<>> )
             => /\ rlog[j].val = s
                /\ rlog[j].err = NoErr
                /\ rlog[j].loc = wlog[j].loc
                /\ rlog[j].end = wlog[j].end
                /\ df.log[rlog[j].n].kind =
                      IF df.string_storage = COMPRESSED THEN "ref" ELSE "first"

\* A long text written twice in compressed mode with another field between,
\* and all three fields read back: the delta of the reference takes two groups.
C6_Witness ==
    /\ pc = "read"
    /\ df.string_storage = COMPRESSED
    /\ Len(rlog) = 3
    /\ wlog[1].val = LongString
    /\ wlog[2].val = <<97, 98>>
    /\ wlog[3].val = LongString
    /\ df.log[rlog[3].n].kind = "ref"
    /\ df.log[rlog[3].n].D > 127

\* The entries of the history before the n-th that are first occurrences
\* read with their text at offset target.
FirstsAt(n, target) ==
    { k \in 1..(n - 1) : /\ df.log[k].op = "read"
                         /\ df.log[k].kind = "first"
                         /\ df.log[k].sloc = target }

\* C9: Broken back-reference.  For every string field read with a delta
\* D > 0: if (offset of D) - D is not the offset of the text of a first
\* occurrence read before, the read fails; if it is but the recorded text is
\* not L long, the read fails; otherwise the read returns the recorded text,
\* which is L long and is the L bytes of the file at that offset.
C9_BrokenBackReference ==
    \A i \in 1..Len(rlog) :
       ( /\ rlog[i].kind = "string"
         /\ rlog[i].logged
         /\ df.log[rlog[i].n].D > 0 )
       =>
       LET e      == df.log[rlog[i].n]
           target == e.dloc - e.D
           known  == FirstsAt(rlog[i].n, target)
       IN /\ e.loc = rlog[i].loc
          /\ IF known = {}
             THEN rlog[i].err = RedirectMissing
             ELSE IF \E k \in known : Len(df.log[k].val) # e.L
             THEN rlog[i].err = RedirectLength
             ELSE /\ rlog[i].err = NoErr
                  /\ \A k \in known : rlog[i].val = df.log[k].val
                  /\ Len(rlog[i].val) = e.L
                  /\ rlog[i].val = SubSeq(df.buf, target + 1, target + e.L)

\* A one-character first occurrence, then a reference to it that gives the
\* length as two: the second read fails.
C9_Witness ==
    /\ pc = "raw"
    /\ Len(rlog) = 2
    /\ rlog[1].err = NoErr
    /\ Len(rlog[1].val) = 1
    /\ rlog[2].logged
    /\ df.log[2].D > 0
    /\ df.log[2].L = 2
    /\ df.log[2].sloc = df.log[1].sloc
    /\ rlog[2].err = RedirectLength

--------------------------------------------------------------------------
(* Properties of the document specification.                               *)

\* The file as read_and_parse reads it, before the comparison of __init__
Parsed == read_and_parse(Datafile_init(data, FALSE))

\* The constructor has run on the file and nothing else has happened
Constructed == pc \in {"loaded", "failed"} /\ edits = <<>>

\* C1: every file that parses (without an error, in-mission saves raise
\* one) is reproduced byte for byte when the parsed document is written in
\* the mode of the file, compressed or expanded.
C1_RoundTrip ==
    Constructed =>
        Bind(Parsed, LAMBDA p :
            p.err = NoErr =>
                \E mode \in {COMPRESSED, EXPANDED} : FileOf(p, mode) = data)

\* C2: a Savefile constructed from a file is written back, unmodified, as
\* the bytes of that file; and a file that parses to a document which is
\* written back as other bytes makes the constructor raise the error of the
\* comparison.
C2_SelfVerification ==
    /\ (pc = "loaded" /\ edits = <<>>) =>
          /\ save.data = data
          /\ FileOf(save, save.string_storage) = data
    /\ Constructed =>
          Bind(Parsed, LAMBDA p :
              (p.err = NoErr /\ FileOf(p, p.string_storage) # data) =>
                  (pc = "failed" /\ save.err = ReconstructError))

\* A file with a skippable region has been loaded.
C2_Witness ==
    /\ pc = "loaded"
    /\ edits = <<>>
    /\ save.shops_offset > 0
    /\ save.string_storage = COMPRESSED

\* C3: the bytes save_to writes hold at offsets 5 to 8 the CRC-32 of the
\* bytes from offset 9 to the end, whatever edits came before.
C3_Checksum ==
    (pc = "saved" /\ out.odf.err = NoErr) =>
        SubSeq(Saved_bytes, 6, 9) = crc32(SubSeq(Saved_bytes, 10, Len(Saved_bytes)))

\* A document has been edited twice and saved, with another checksum than
\* the file had.
C3_Witness ==
    /\ pc = "saved"
    /\ Len(edits) >= 2
    /\ out.odf.err = NoErr
    /\ SubSeq(Saved_bytes, 6, 9) # SubSeq(data, 6, 9)

\* The segments of the unparsed data from the i-th on, found at the cursor
\* d: the bytes as they are, each str as read_string reads it there.
RECURSIVE TailDecodes(_, _, _)
TailDecodes(d, categorized, i) ==
    IF d.err # NoErr THEN FALSE
    ELSE IF i > Len(categorized) THEN tell(d) = Len(d.buf)
    ELSE IF categorized[i].t = "bytes"
    THEN Bind(read(d, Len(categorized[i].v)), LAMBDA r :
            r.val = categorized[i].v /\ TailDecodes(r, categorized, i + 1))
    ELSE Bind(read_string(d), LAMBDA r :
            /\ r.err = NoErr
            /\ r.val = categorized[i].v
            /\ TailDecodes(r, categorized, i + 1))

\* The cursor at the unparsed data of the bytes written
SavedTail == Savefile_read_modelled(Datafile_init(Saved_bytes, FALSE))

\* C4: in the bytes save_to writes, the unparsed data is, from where it now
\* begins to the end of the file, the segments the scanner found, in their
\* order: each run of bytes unchanged, each string (first occurrence or
\* reference) decoding at its place to the text it had in the file read.
C4_TailSafety ==
    (pc = "saved" /\ out.odf.err = NoErr) =>
        TailDecodes(SavedTail, save.remaining.categorized, 1)

\* A compressed document whose unparsed data holds a reference and a first
\* occurrence has been edited and saved, the unparsed data at another offset.
C4_Witness ==
    /\ pc = "saved"
    /\ edits # <<>>
    /\ out.odf.err = NoErr
    /\ out.odf.string_storage = COMPRESSED
    /\ tell(SavedTail) # save.remaining.start_pos
    /\ \E i \in DOMAIN save.remaining.categorized :
          /\ save.remaining.categorized[i].t = "str"
          /\ save.remaining.categorized[i].kind = "ref"
    /\ \E i \in DOMAIN save.remaining.categorized :
          /\ save.remaining.categorized[i].t = "str"
          /\ save.remaining.categorized[i].kind = "first"

\* The cursor just behind the offset varint of bytes
AtOffset(bytes) ==
    Savefile_read_loot(Savefile_read_rede(Savefile_read_head(
        Datafile_init(bytes, FALSE))))

\* In bytes that parse, the parser is at (end of the offset varint) + offset
\* when it reads pre_shops_zero, and reads no region for an offset of zero.
OffsetHonoured(bytes) ==
    Bind(AtOffset(bytes), LAMBDA a :
        Bind(Savefile_read_skippable(a), LAMBDA b :
            /\ b.err = NoErr
            /\ tell(b) = tell(a) + a.val.shops_offset
            /\ b.val.pbar_start_loc = tell(b)
            /\ a.val.shops_offset = 0 =>
                  (b.val.world_data = None /\ b.val.skipped_data = None)
            /\ a.val.shops_offset > 0 =>
                  b.val.skipped_data
                      = SubSeq(bytes, tell(ReadT(a, WorldData_init)) + 1, tell(b))))

\* In the bytes written for doc, the offset is the length of the region as
\* written (none for an offset of zero), and pre_shops_zero and the shops
\* follow at (end of the offset varint) + offset.
OffsetWritten(doc, bytes) ==
    Bind(AtOffset(bytes), LAMBDA a :
        /\ a.err = NoErr
        /\ a.val.shops_offset =
              (IF doc.shops_offset = 0 THEN 0
               ELSE Len(Written_bytes(Savefile_write_skippable(doc))))
        /\ doc.shops_offset # 0 =>
              SubSeq(bytes, tell(a) + 1, tell(a) + a.val.shops_offset)
                  = Written_bytes(Savefile_write_skippable(doc))
        /\ Bind(Savefile_read_shops(seek(a, tell(a) + a.val.shops_offset)),
                LAMBDA s : /\ s.err = NoErr
                           /\ s.val.pre_shops_zero = doc.pre_shops_zero
                           /\ s.val.shops = doc.shops))

\* C5: a file that parses is read with pre_shops_zero at (end of the offset
\* varint) + offset, with no region for an offset of zero; and whatever is
\* written, for the comparison of the constructor or by save_to, has the
\* length of the region as written for its offset and pre_shops_zero at
\* (end of the offset varint) + offset.
C5_SkipOffset ==
    /\ Constructed =>
          Bind(Parsed, LAMBDA p :
              p.err = NoErr =>
                  /\ OffsetHonoured(data)
                  /\ OffsetWritten(p, FileOf(p, p.string_storage)))
    /\ (pc = "saved" /\ out.odf.err = NoErr) =>
          /\ OffsetWritten(save, Saved_bytes)
          /\ OffsetHonoured(Saved_bytes)

\* A document with a skippable region that ends in bytes the parser does
\* not model has been edited and saved.
C5_Witness ==
    /\ pc = "saved"
    /\ out.odf.err = NoErr
    /\ edits # <<>>
    /\ save.shops_offset > 0
    /\ Len(save.skipped_data) > 0
    /\ Len(Saved_bytes) # Len(data)

\* The references read_string has read, and the first occurrences it has
\* read whose text an earlier first occurrence had
ReferencesRead(log) ==
    {i \in DOMAIN log : log[i].op = "read" /\ log[i].kind = "ref"}

DuplicatesRead(log) ==
    {i \in DOMAIN log :
        /\ log[i].op = "read"
        /\ log[i].kind = "first"
        /\ \E j \in 1..(i - 1) : log[j].kind = "first" /\ log[j].val = log[i].val}

ModeRead(log) ==
    IF ReferencesRead(log) # {} /\ DuplicatesRead(log) = {} THEN COMPRESSED
    ELSE IF ReferencesRead(log) = {} /\ DuplicatesRead(log) # {} THEN EXPANDED
    ELSE UNKNOWN

\* The strings write_string has written are written in compressed mode: a
\* reference exactly where the text was written before
WrittenCompressed(log) ==
    \A i \in DOMAIN log :
        log[i].kind # "absent" =>
            (log[i].kind = "ref"
                <=> \E j \in 1..(i - 1) : log[j].val = log[i].val)

\* The strings write_string has written are written in expanded mode
WrittenExpanded(log) ==
    \A i \in DOMAIN log : log[i].kind \in {"absent", "first"}

\* C10: the mode of a parsed file is COMPRESSED when read_string read a
\* reference and no repeated first occurrence, EXPANDED when it read a
\* repeated first occurrence and no reference, UNKNOWN otherwise; save_to
\* writes in the mode its caller forces (COMPRESSED or EXPANDED), otherwise
\* in the mode of the document, and an UNKNOWN mode as compressed.
C10_WriteMode ==
    /\ Constructed =>
          Bind(Parsed, LAMBDA p :
              p.err = NoErr => p.string_storage = ModeRead(p.log))
    /\ pc = "loaded" => save.string_storage = ModeRead(save.log)
    /\ (pc = "saved" /\ out.odf.err = NoErr) =>
          IF out.force_string_mode = EXPANDED
               \/ (out.force_string_mode = UNKNOWN /\ save.string_storage = EXPANDED)
          THEN WrittenExpanded(out.odf.log)
          ELSE WrittenCompressed(out.odf.log)

\* A document of UNKNOWN mode has been saved without a forced mode, and a
\* reference was written.
C10_Witness ==
    /\ pc = "saved"
    /\ out.odf.err = NoErr
    /\ save.string_storage = UNKNOWN
    /\ out.force_string_mode = UNKNOWN
    /\ \E i \in DOMAIN out.odf.log : out.odf.log[i].kind = "ref"

--------------------------------------------------------------------------
(* Properties of the document specification: errors of the constructor.    *)

\* The two mission-related bytes have been read without an error and one
\* of them is not zero
InMissionBytes(m) ==
    /\ m.err = NoErr
    /\ \/ m.val.unknown_mission_related_1 # 0
       \/ m.val.unknown_mission_related_2 # 0

\* C11: the constructor raises InMissionSavegameException exactly when all
\* that precedes the two mission-related bytes of the MsnD record is read
\* without an error and one of the two bytes is not zero; the cursor is then
\* behind the two bytes, nothing behind them has been read, and the error
\* is not the one of the comparison.
C11_InMission ==
    Constructed =>
        Bind(AtMissionBytes(data), LAMBDA m :
            /\ (pc = "failed" /\ save.err = InMissionSavegameException)
                  <=> InMissionBytes(m)
            /\ InMissionBytes(m) =>
                  /\ Parsed.err = InMissionSavegameException
                  /\ tell(Parsed) = tell(m)
                  /\ Parsed.log = m.log)

\* The constructor has raised the in-mission error for a file in which the
\* second byte alone is set, or which ends behind the two bytes.
C11_Witness ==
    /\ pc = "failed"
    /\ save.err = InMissionSavegameException
    /\ \/ AtMissionBytes(data).val.unknown_mission_related_1 = 0
       \/ tell(AtMissionBytes(data)) = Len(data)

\* The file begins with the magic
HasMagic == Len(data) >= 4 /\ SubSeq(data, 1, 4) = SWH2

\* C12: a file that does not begin with the magic is rejected with the
\* error of the magic, whatever its version byte; a file with the magic and
\* a version byte above MAX_VERSION is rejected with the error of the
\* version; in both cases nothing behind the version byte has been read.  A
\* file with the magic and version 0 or 1 meets neither error.
C12_HeaderValidation ==
    Constructed =>
        /\ ~HasMagic =>
              /\ pc = "failed" /\ save.err = NotSWH2
              /\ Parsed.err = NotSWH2 /\ tell(Parsed) <= 4 /\ Parsed.log = <<>>
        /\ (HasMagic /\ Len(data) >= 5 /\ data[5] > MAX_VERSION) =>
              /\ pc = "failed" /\ save.err = VersionError
              /\ Parsed.err = VersionError /\ tell(Parsed) = 5 /\ Parsed.log = <<>>
        /\ (HasMagic /\ Len(data) >= 5 /\ data[5] \in {0, 1}) =>
              /\ save.err \notin {NotSWH2, VersionError}
              /\ pc = "loaded" => save.version = data[5]

\* A file of version 0 has been loaded.
C12_Witness ==
    /\ pc = "loaded"
    /\ edits = <<>>
    /\ save.version = 0

--------------------------------------------------------------------------
(* Properties of the document specification: edits.                        *)

\* The offset behind the GaRe record of bytes; water is its last four
\* bytes and fragments the four before.
ResourcesEnd(bytes) ==
    tell(ReadFields(seek(Datafile_init(bytes, FALSE), 9),
                    << F("header", Header_init), F("imh2", Imh2_init),
                       F("resources", GameResources_init) >>, 1, EmptyMap))

\* struct.unpack('<I') of the four bytes at offset loc
Uint32At(bytes, loc) ==
    bytes[loc + 1] + 256 * bytes[loc + 2] + 65536 * bytes[loc + 3]
        + 16777216 * bytes[loc + 4]

\* Only water and fragments have been edited, and save_to has written in
\* the mode of the document.
FixedWidthEdited ==
    /\ pc = "saved"
    /\ out.odf.err = NoErr
    /\ edits # <<>>
    /\ \A i \in DOMAIN edits : edits[i] \in {"water", "fragments"}
    /\ out.force_string_mode \in {UNKNOWN, save.string_storage}

\* C14: when only the uint32 fields water and fragments of a loaded
\* document have been edited, the bytes written are as many as the file
\* had and differ from it only in the checksum (offsets 5 to 8) and in the
\* four bytes of each field edited; the bytes of the field are the value
\* the document has, which the output parsed again reports, and after one
\* edit of water that value is another argument than the file had.
C14_FixedWidthEdit ==
    FixedWidthEdited =>
        Bind(ResourcesEnd(data), LAMBDA e :
            /\ Len(Saved_bytes) = Len(data)
            /\ \A i \in 0..(Len(data) - 1) :
                  Saved_bytes[i + 1] # data[i + 1] =>
                      \/ i \in 5..8
                      \/ i \in (e - 4)..(e - 1) /\ \E k \in DOMAIN edits : edits[k] = "water"
                      \/ i \in (e - 8)..(e - 5) /\ \E k \in DOMAIN edits : edits[k] = "fragments"
            /\ Uint32At(Saved_bytes, e - 4) = save.resources.water
            /\ Uint32At(Saved_bytes, e - 8) = save.resources.fragments
            /\ Bind(Savefile_init(Saved_bytes), LAMBDA s :
                  /\ s.err = NoErr
                  /\ s.resources.water = save.resources.water
                  /\ s.resources.fragments = save.resources.fragments)
            /\ edits = <<"water">> =>
                  /\ save.resources.water \in WaterArgs
                  /\ save.resources.water # Uint32At(data, e - 4))

\* Water alone has been set, to a value of three bytes, and the document
\* saved without a forced mode.
C14_Witness ==
    /\ pc = "saved"
    /\ edits = <<"water">>
    /\ out.force_string_mode = UNKNOWN
    /\ save.resources.water = 70000
    /\ Saved_bytes # data

--------------------------------------------------------------------------
(* Properties of the crew operations.                                      *)

\* The call in out was made, with this name, on a job the crew member had.
CalledOnJob(op) ==
    /\ pc = "crew"
    /\ out # NoSave
    /\ out.op = op
    /\ DictHas(JOBS, out.job_name)
    /\ DictHas(out.before.jobs, out.job_name)

ClampedLevel == IF out.arg < XP.max_level THEN out.arg ELSE XP.max_level

\* skill belongs to a level of the job above N, up to the level old
AboveLevel(skill, job_name, N, old) ==
    \E l \in (N + 1)..old :
        /\ l + 1 <= Len(DictGet(JOBS, job_name).skills)
        /\ skill \in set(DictGet(JOBS, job_name).skills[l + 1])

\* The selections, in order, without those that AboveLevel names.
RECURSIVE KeptSelections(_, _, _, _)
KeptSelections(l, job_name, N, old) ==
    IF l = <<>> THEN <<>>
    ELSE (IF AboveLevel(Head(l), job_name, N, old) THEN <<>> ELSE <<Head(l)>>)
         \o KeptSelections(Tail(l), job_name, N, old)

ClampedXp == IF out.arg < XP.max_xp THEN out.arg ELSE XP.max_xp

\* C17: set_job_xp with a value that, clamped to the maximum XP, is below
\* the XP of the job fails with an error and leaves the crew member as it
\* was: the XP and level of the job, the other jobs and every other field.
C17_DecreasingXp ==
    (CalledOnJob("set_job_xp")
        /\ ClampedXp < DictGet(out.before.jobs, out.job_name).xp)
    => /\ out.err = RuntimeError
       /\ save = out.before

\* A refused decrease, made after an earlier call on the crew member.
C17_Witness ==
    /\ CalledOnJob("set_job_xp")
    /\ ClampedXp < DictGet(out.before.jobs, out.job_name).xp
    /\ out.err = RuntimeError
    /\ Len(edits) = 2
--------------------------------------------------------------------------
(* Properties of the inventory.                                            *)

\* The item ids are pairwise distinct and none is above last_inventory_id.
IdsDistinct(inventory) ==
    /\ \A i, j \in DOMAIN inventory.items :
          i # j => inventory.items[i].id # inventory.items[j].id
    /\ \A i \in DOMAIN inventory.items :
          inventory.items[i].id <= inventory.last_inventory_id

\* items is old without some of its items, in the old order
RECURSIVE IsSubsequence(_, _)
IsSubsequence(items, old) ==
    IF items = <<>> THEN TRUE
    ELSE IF old = <<>> THEN FALSE
    ELSE IF Head(items) = Head(old) THEN IsSubsequence(Tail(items), Tail(old))
    ELSE IsSubsequence(items, Tail(old))

\* One edit of a document whose ids were distinct: they still are, the
\* items added follow the old ones with the ids last_inventory_id + 1,
\* + 2, ... , and without an addition the items are old ones and
\* last_inventory_id stays.
IdsStep(old, new) ==
    IdsDistinct(old) =>
        /\ IdsDistinct(new)
        /\ new.last_inventory_id >= old.last_inventory_id
        /\ \A i \in DOMAIN new.items :
              \/ \E j \in DOMAIN old.items : new.items[i] = old.items[j]
              \/ new.items[i].id > old.last_inventory_id
        /\ IF Len(new.items) > Len(old.items)
           THEN /\ SubSeq(new.items, 1, Len(old.items)) = old.items
                /\ \A k \in 1..(Len(new.items) - Len(old.items)) :
                      new.items[Len(old.items) + k].id = old.last_inventory_id + k
                /\ new.last_inventory_id
                      = old.last_inventory_id + Len(new.items) - Len(old.items)
           ELSE /\ IsSubsequence(new.items, old.items)
                /\ new.last_inventory_id = old.last_inventory_id

\* C18: from an inventory whose item ids are pairwise distinct and not
\* above last_inventory_id, every add_item and every removal leaves the
\* ids pairwise distinct, gives each added item the id last_inventory_id
\* + 1 of the moment it is added, and never lowers last_inventory_id, so
\* that the id of a removed item is not given out again.
C18_UniqueItemIds ==
    [][(pc = "loaded" /\ pc' = "loaded")
        => IdsStep(save.inventory, save'.inventory)]_vars

\* The key item with id 2 was removed and added again: it has id 3.
C18_Witness ==
    /\ pc = "loaded"
    /\ edits = <<"remove_key_item", "add_key_item">>
    /\ IdsDistinct(save.inventory)
    /\ save.inventory.last_inventory_id = 3
    /\ \A i \in DOMAIN save.inventory.items : save.inventory.items[i].id # 2
    /\ \E i \in DOMAIN save.inventory.items :
          /\ save.inventory.items[i].id = 3
          /\ save.inventory.items[i].name = <<107, 101, 121>>
--------------------------------------------------------------------------
(* Properties of the skippable region.                                     *)

\* offset pos lies in the region of len bytes that starts at offset start
InRegion(pos, start, len) == start <= pos /\ pos < start + len

\* Of the string fields in log, those outside the region that are
\* references have their text outside the region, and no string of the
\* registry (offset to text, or text to offset) starts inside it.
RegistryOutside(log, offsets, start, len) ==
    /\ \A i \in DOMAIN log :
          (log[i].kind = "ref" /\ ~InRegion(log[i].loc, start, len))
              => ~InRegion(log[i].sloc, start, len)
    /\ \A pos \in offsets : ~InRegion(pos, start, len)

\* The region of doc is written with a registry of its own that is empty
\* before and after, and none of its fields is a string field.
RegionWrittenAlone(doc) ==
    Bind(Savefile_write_skippable(doc), LAMBDA skippable_df :
        /\ skippable_df.err = NoErr
        /\ skippable_df.string_write_lookup = EmptyMap
        /\ skippable_df.log = <<>>)

\* C19: no reference read or written outside the skippable region has its
\* text inside the region; nothing written inside the region is a
\* reference to a string outside; the region is written with a registry
\* of its own, empty at the start, and no string of the region enters the
\* registry of the file.
C19_RegistryScope ==
    /\ Constructed =>
          Bind(AtOffset(data), LAMBDA a :
              (a.err = NoErr /\ a.val.shops_offset > 0) =>
                  Bind(Parsed, LAMBDA p :
                      RegistryOutside(p.log, DOMAIN p.string_read_lookup,
                                      tell(a), a.val.shops_offset)))
    /\ (pc = "saved" /\ out.odf.err = NoErr /\ save.shops_offset > 0) =>
          Bind(AtOffset(Saved_bytes), LAMBDA a :
              /\ a.err = NoErr
              /\ a.val.shops_offset = save.shops_offset
              /\ RegistryOutside(out.odf.log,
                                 {out.odf.string_write_lookup[v] :
                                     v \in DOMAIN out.odf.string_write_lookup},
                                 tell(a), save.shops_offset)
              /\ RegionWrittenAlone(save))

\* An edited document with "ann" and "bar" in its region has been saved:
\* "bar" behind the region is written in full, and a reference behind the
\* region has its text before the region.
C19_Witness ==
    /\ pc = "saved"
    /\ out.odf.err = NoErr
    /\ edits # <<>>
    /\ save.shops_offset > 9
    /\ Bind(AtOffset(Saved_bytes), LAMBDA a :
          /\ \E i \in DOMAIN out.odf.log :
                /\ out.odf.log[i].kind = "ref"
                /\ out.odf.log[i].loc >= tell(a) + save.shops_offset
                /\ out.odf.log[i].sloc < tell(a)
          /\ \E i \in DOMAIN out.odf.log :
                /\ out.odf.log[i].kind = "first"
                /\ out.odf.log[i].val = <<98, 97, 114>>
                /\ out.odf.log[i].loc >= tell(a) + save.shops_offset)
--------------------------------------------------------------------------
(* Properties of the scanner.                                              *)

\* The varint at offset pos of bytes, as far as the bytes go: its value
\* and the offset behind it, or no varint (more than four groups, or the
\* bytes end inside it).
RECURSIVE VarintAt(_, _, _, _)
VarintAt(bytes, pos, groups, acc) ==
    IF groups >= 4 \/ pos >= Len(bytes) THEN [ok |-> FALSE]
    ELSE IF bytes[pos + 1] >= 128
    THEN VarintAt(bytes, pos + 1, groups + 1,
                  acc + (bytes[pos + 1] - 128) * Pow128(groups))
    ELSE [ok |-> TRUE, val |-> acc + bytes[pos + 1] * Pow128(groups),
          end |-> pos + 1]

\* The last round of the scanner has recorded a string of this kind.
Recorded(kind) ==
    /\ out.found
    /\ save.categorized[Len(save.categorized)].t = "str"
    /\ save.categorized[Len(save.categorized)].kind = kind

\* The conditions of a first occurrence at the position of the last round
FirstOccurrenceAt(L, D) ==
    /\ L.ok /\ L.val \in 1..255
    /\ D.ok /\ D.val = 0
    /\ D.end + L.val <= Len(data)
    /\ \A i \in (D.end + 1)..(D.end + L.val) : ValidStringChar(data[i])
    /\ \/ SubSeq(data, D.end + 1, D.end + L.val) \notin out.df.string_read_seen
       \/ get_string_storage_guess(out.df) # COMPRESSED

\* The conditions of a back-reference at the position of the last round
BackReferenceAt(L, D) ==
    /\ L.ok /\ L.val \in 1..255
    /\ D.ok /\ D.val > 0
    /\ (L.end - D.val) \in DOMAIN out.df.string_read_lookup
    /\ Len(out.df.string_read_lookup[L.end - D.val]) = L.val

\* C20: at a scan position the scanner records a first occurrence only if
\* the length varint is in 1..255, the second varint is 0, the bytes of
\* the length are there and are identifier characters, and the text was
\* not seen before or the guess is not COMPRESSED; a back-reference only
\* if the second varint is above 0, the offset it names is a known string
\* start and the cached string has the length; in every other case the
\* byte stays in the raw run and the scan moves on by one byte.
C20_ScannerClassification ==
    (pc \in {"scan", "failed"} /\ out # NoSave) =>
        Bind(VarintAt(data, out.u.remaining_cur_pos, 0, 0), LAMBDA L :
          Bind(IF L.ok THEN VarintAt(data, L.end, 0, 0) ELSE [ok |-> FALSE],
               LAMBDA D :
            /\ out.err = NoErr
            /\ Recorded("first") => FirstOccurrenceAt(L, D)
            /\ Recorded("ref") => BackReferenceAt(L, D)
            /\ ~out.found =>
                  /\ save.remaining_cur_pos = out.u.remaining_cur_pos + 1
                  /\ save.remaining_prev_pos = out.u.remaining_prev_pos
                  /\ save.categorized = out.u.categorized))
--------------------------------------------------------------------------
(* Absent and empty strings (string specification).                       *)

\* The string fields written so far that were read back.
ReadBack == IF pc = "read" THEN 1..Len(rlog) ELSE {}

\* C21: Absent versus empty string.  A string field whose length byte is 0
\* reads as None and consumes that one byte; writing None emits the single
\* byte 0; and for every value v written (None, the empty string or a
\* non-empty string), read_string on the bytes write_string(v) emitted
\* returns v and consumes exactly those bytes.
C21_AbsentVersusEmpty ==
    /\ \A i \in 1..Len(rlog) :
          ( /\ rlog[i].kind = "string"
            /\ rlog[i].loc < Len(df.buf)
            /\ df.buf[rlog[i].loc + 1] = 0 )
          => /\ IsNone(rlog[i].val)
             /\ rlog[i].err = NoErr
             /\ rlog[i].end = rlog[i].loc + 1
    /\ \A i \in 1..Len(wlog) :
          (wlog[i].kind = "string" /\ IsNone(wlog[i].val))
          => Written(i) = <<0>>
    /\ \A i \in ReadBack :
          wlog[i].kind = "string"
          => /\ rlog[i].val = wlog[i].val
             /\ rlog[i].err = NoErr
             /\ rlog[i].loc = wlog[i].loc
             /\ rlog[i].end = wlog[i].end

\* The same with the fields from the first empty string on set aside: the
\* statement then holds.
C21_NonEmptyOnly ==
    /\ \A i \in 1..Len(rlog) :
          ( /\ rlog[i].kind = "string"
            /\ rlog[i].loc < Len(df.buf)
            /\ df.buf[rlog[i].loc + 1] = 0 )
          => /\ IsNone(rlog[i].val)
             /\ rlog[i].err = NoErr
             /\ rlog[i].end = rlog[i].loc + 1
    /\ \A i \in 1..Len(wlog) :
          (wlog[i].kind = "string" /\ IsNone(wlog[i].val))
          => Written(i) = <<0>>
    /\ \A i \in ReadBack :
          (wlog[i].kind = "string" /\ \A k \in 1..i : wlog[k].val # <<>>)
          => /\ rlog[i].val = wlog[i].val
             /\ rlog[i].err = NoErr
             /\ rlog[i].loc = wlog[i].loc
             /\ rlog[i].end = wlog[i].end

\* An empty string written and read back: two bytes 0 0 were written, the
\* read returns None and has consumed one of them.
C21_EmptyReadsAbsent ==
    /\ pc = "read"
    /\ Len(rlog) >= 1
    /\ wlog[1].val = <<>>
    /\ Written(1) = <<0, 0>>
    /\ IsNone(rlog[1].val)
    /\ rlog[1].end = 1
--------------------------------------------------------------------------
(* Unlocking crew (unlock specification).                                  *)

\* The last step was a call of unlock_crew
Unlocked == pc = "loaded" /\ out # NoSave

\* How often x is in the list l, and key among the keys of dict
Count(l, x) == Cardinality({i \in DOMAIN l : l[i] = x})
KeyCount(dict, key) == Cardinality({i \in DOMAIN dict : dict[i][1] = key})

\* No name is twice in the header crew list, the crew list, the loadouts or
\* the crew controller of the document.
NoDuplicateCrew(doc) ==
    /\ \A x \in set(doc.header.crew) : Count(doc.header.crew, x) = 1
    /\ \A x \in set(doc.crew_list) : Count(doc.crew_list, x) = 1
    /\ \A i \in DOMAIN doc.inventory.loadouts :
          KeyCount(doc.inventory.loadouts, doc.inventory.loadouts[i][1]) = 1
    /\ \A i \in DOMAIN doc.crew.crew :
          KeyCount(doc.crew.crew, doc.crew.crew[i][1]) = 1

\* C22: unlock_crew is idempotent.  A call for an unknown name raises an
\* error and leaves the document as it was; a call for a member of the crew
\* list returns without an error and leaves the document as it was; after
\* every call for a known name a further call for the same member (under
\* either of its keys, with any level and flag) changes nothing; and a
\* document without duplicates in the header crew list, the crew list, the
\* loadouts and the crew controller, whose header names only members of the
\* crew list, has none after the call.
C22_UnlockIdempotent ==
    Unlocked =>
      IF ~DictHas(CREW, out.crew_name)
      THEN out.err = RuntimeError /\ save = out.before
      ELSE Bind(DictGet(CREW, out.crew_name).name, LAMBDA name :
             /\ out.err = NoErr
             /\ name \in set(out.before.crew_list) => save = out.before
             /\ name \in set(save.crew_list)
             /\ \A again \in UnlockArgs, level \in UnlockLevels,
                  flag_as_new \in BOOLEAN :
                   (DictHas(CREW, again) /\ DictGet(CREW, again).name = name)
                   => unlock_crew(save, again, level, flag_as_new) = Done(save)
             /\ ( /\ NoDuplicateCrew(out.before)
                  /\ set(out.before.header.crew) \subseteq set(out.before.crew_list) )
                => NoDuplicateCrew(save))

\* A member is unlocked under its name and then again under its second
\* key, with another level: the second call has changed nothing, and the
\* member is once in each of the four places.
C22_Witness ==
    /\ Unlocked
    /\ edits = <<Latin1("bob"), <<98, 111>>>>
    /\ out.level = 0
    /\ save = out.before
    /\ DictGet(save.crew.crew, Latin1("bob")).jobs # <<>>
    /\ Count(save.header.crew, Latin1("bob")) = 1
    /\ Count(save.crew_list, Latin1("bob")) = 1
    /\ KeyCount(save.inventory.loadouts, Latin1("bob")) = 1
    /\ KeyCount(save.crew.crew, Latin1("bob")) = 1

\* The call was for a known member that the crew list did not hold
UnlockedNew ==
    /\ Unlocked
    /\ DictHas(CREW, out.crew_name)
    /\ DictGet(CREW, out.crew_name).name \notin set(out.before.crew_list)

\* The list l without its entries x, in the old order
Without(l, x) == SelectSeq(l, LAMBDA y : y # x)

\* The recruitment pool after name has left it
PoolAfter(before, after, name) ==
    IF IsNone(before) THEN IsNone(after)
    ELSE /\ after.items = Without(before.items, name)
         /\ after.unknown = IF after.items = <<>> THEN 0 ELSE before.unknown
         /\ after.zero = before.zero

\* The shops after the slots that offered name were blanked
ShopsAfter(before, after, name) ==
    /\ Len(after) = Len(before)
    /\ \A i \in DOMAIN before :
          /\ after[i][1] = before[i][1]
          /\ Len(after[i][2].available_crew) = Len(before[i][2].available_crew)
          /\ \A k \in DOMAIN before[i][2].available_crew :
                after[i][2].available_crew[k] =
                   IF before[i][2].available_crew[k] = name THEN None
                   ELSE before[i][2].available_crew[k]
          /\ [after[i][2] EXCEPT !.available_crew = <<>>]
                = [before[i][2] EXCEPT !.available_crew = <<>>]

\* The fields of a document that the file stores besides the checksum, the
\* offset of the shops and the unparsed data
Stored(doc) ==
    [n \in {"version", "header", "imh2", "resources", "ship", "inventory",
            "crew_list", "used_crew", "rede", "loot_tables", "lode",
            "ship_location", "missions", "world_data", "skipped_data",
            "pre_shops_zero", "shops", "crew"} |-> doc[n]]

--------------------------------------------------------------------------
(* The scan of the unparsed data as a whole (scanner specification).       *)

\* The segments from the i-th on lie one behind the other from offset p to
\* offset last: a run of bytes is not empty, is not followed by another run
\* and holds the bytes of the data at its place; a string starts where the
\* segment before it ended.
RECURSIVE SegmentsCover(_, _, _, _)
SegmentsCover(categorized, i, p, last) ==
    IF i > Len(categorized) THEN p = last
    ELSE IF categorized[i].t = "bytes"
    THEN /\ Len(categorized[i].v) > 0
         /\ p + Len(categorized[i].v) <= last
         /\ categorized[i].v = SubSeq(data, p + 1, p + Len(categorized[i].v))
         /\ i < Len(categorized) => categorized[i + 1].t = "str"
         /\ SegmentsCover(categorized, i + 1, p + Len(categorized[i].v), last)
    ELSE /\ categorized[i].loc = p
         /\ categorized[i].end > p
         /\ categorized[i].end <= last
         /\ SegmentsCover(categorized, i + 1, categorized[i].end, last)

\* C23: Tail scan terminates and covers the range.  For every data behind
\* the string fields read: no round of the scan ends in an error; every
\* round moves the scan position forward; and when the scan is over, the
\* cursor of the Datafile is at the end of the data and the segments are
\* runs of bytes and strings that lie one behind the other from the start
\* of the scan to the end of the data.
C23_TailScanCovers ==
    /\ pc # "failed"
    /\ (pc = "scan" /\ out # NoSave)
       => /\ out.err = NoErr
          /\ save.remaining_cur_pos > out.u.remaining_cur_pos
    /\ pc = "done"
       => /\ df.err = NoErr
          /\ tell(df) = save.last_pos
          /\ save.last_pos = Len(data)
          /\ SegmentsCover(save.categorized, 1, save.start_pos, save.last_pos)

\* The scan has failed: the round at the last byte of the data, which is
\* not zero, ended in IndexError.
C23_ScanFails ==
    /\ pc = "failed"
    /\ out.err = IndexError
    /\ out.u.remaining_cur_pos = Len(data) - 1
    /\ data[Len(data)] # 0

\* The texts of the string fields from the cursor d up to offset stop
RECURSIVE HeadStrings(_, _)
HeadStrings(d, stop) ==
    IF tell(d) >= stop \/ d.err # NoErr THEN <<>>
    ELSE Bind(read_string(d), LAMBDA r : <<r.val>> \o HeadStrings(r, stop))

RECURSIVE WriteStrings(_, _, _)
WriteStrings(odf, strings, i) ==
    IF i > Len(strings) THEN odf
    ELSE WriteStrings(write_string(odf, strings[i]), strings, i + 1)

\* The string fields and the scanned data written again: the fields with
\* write_string, the segments with UnparsedData.write_to, in the mode
\* get_string_storage_guess gives for the Datafile that was read.
Rewritten ==
    getvalue(UnparsedData_write_to(
        WriteStrings([Datafile_init(<<>>, TRUE) EXCEPT
                         !.string_storage = get_string_storage_guess(df)],
                     HeadStrings(Datafile_init(data, FALSE), save.start_pos), 1),
        save))

\* C24: Scanned tail re-encodes to the same bytes.  Whenever the scan of
\* the data has ended, the string fields and the segments the scanner
\* recorded, written in the mode of the data read, are the data read, byte
\* for byte.
C24_TailReencodes ==
    pc = "done" => Rewritten = data

\* A text that is in the string fields once is in the scanned data again in
\* full, and neither a reference nor a duplicate was read: the scanner has
\* recorded it as a string, and it is written back as a reference.
C24_DuplicateAsReference ==
    /\ pc = "done"
    /\ get_string_storage_guess(df) = UNKNOWN
    /\ data = <<2, 0, 97, 97, 2, 0, 97, 97>>
    /\ Len(save.categorized) = 1
    /\ save.categorized[1].t = "str"
    /\ Rewritten = <<2, 0, 97, 97, 2, 3>>
--------------------------------------------------------------------------
(* New job records, and level against XP (crew specification).             *)

\* The call in out was made, with this name, for a job the member lacked.
CalledOnNewJob ==
    /\ pc = "crew"
    /\ out # NoSave
    /\ out.op \in {"job_level_to", "set_job_xp"}
    /\ DictHas(JOBS, out.job_name)
    /\ ~DictHas(out.before.jobs, out.job_name)

\* The highest level whose XP requirement xp reaches
HighestLevel(xp) ==
    CHOOSE l \in 0..XP.max_level :
        /\ XP.level_to_xp[l + 1] <= xp
        /\ \A k \in (l + 1)..XP.max_level : XP.level_to_xp[k + 1] > xp

\* The names of the job map are in the order of JOB_ORDER
InGameOrder(jobs) ==
    \A i, j \in DOMAIN jobs :
        i < j => \E a, b \in DOMAIN JOB_ORDER :
                    a < b /\ JOB_ORDER[a] = jobs[i][1] /\ JOB_ORDER[b] = jobs[j][1]

Consistent(job) == job.level = HighestLevel(job.xp)

\* C26: Level and XP stay consistent under mutation.  After job_level_to
\* on a known job: if the level of the job has changed (or the job is
\* new), the level is the one asked for, at most the maximum, and the XP is
\* the requirement of that level.  After set_job_xp on a known job that
\* raised the XP (or made the job): the XP is the one asked for, at most
\* the maximum, and the level is the higher of the old level and the
\* highest level the XP reaches.  Every job of a crew member whose jobs
\* were consistent when read has the highest level its XP reaches.
C26_LevelXpConsistent ==
    (pc = "crew") =>
      /\ \A i \in DOMAIN save.jobs : Consistent(save.jobs[i][2])
      /\ (out # NoSave /\ out.op = "job_level_to" /\ DictHas(save.jobs, out.job_name))
         => Bind(DictGet(save.jobs, out.job_name), LAMBDA job :
              ( \/ ~DictHas(out.before.jobs, out.job_name)
                \/ DictGet(out.before.jobs, out.job_name).level # job.level )
              => /\ job.level = ClampedLevel
                 /\ job.xp = XP.level_to_xp[job.level + 1])
      /\ (out # NoSave /\ out.op = "set_job_xp" /\ DictHas(save.jobs, out.job_name))
         => Bind(DictGet(save.jobs, out.job_name), LAMBDA job :
              IF ~DictHas(out.before.jobs, out.job_name)
              THEN job.xp = ClampedXp /\ job.level = HighestLevel(job.xp)
              ELSE Bind(DictGet(out.before.jobs, out.job_name), LAMBDA old :
                     /\ job.level >= old.level
                     /\ job.xp >= old.xp
                     /\ job.xp > old.xp =>
                          /\ job.xp = ClampedXp
                          /\ job.level =
                               IF old.level > HighestLevel(job.xp) THEN old.level
                               ELSE HighestLevel(job.xp)))

\* set_job_xp has raised the XP of a job past two requirements after
\* job_level_to had lowered its level: the level went from 0 to 2.
C26_Witness ==
    /\ pc = "crew"
    /\ edits = <<"job_level_to", "set_job_xp">>
    /\ DictHas(out.before.jobs, out.job_name)
    /\ DictGet(out.before.jobs, out.job_name).level = 0
    /\ DictGet(out.before.jobs, out.job_name).xp = 0
    /\ out.arg = 250
    /\ DictGet(save.jobs, out.job_name).level = 2
    /\ DictGet(save.jobs, out.job_name).xp = 250
--------------------------------------------------------------------------
(* Shop records (shop specification).                                      *)

\* The crew section of the bytes of a chunk: from the flag has_crew, at
\* offset 6, to the purchased items
CrewSection(bytes) ==
    Bind(ReadFields(seek(Datafile_init(bytes, FALSE), 6),
                    << F("has_crew", uint8) >>, 1, <<>>), LAMBDA r1 :
        Bind(IF r1.val.has_crew > 0
             THEN ReadFields(r1, << F("crew_unknown_zero", uint8),
                                    F("available_crew", ListOf(varint, string)) >>,
                             1, <<>>)
             ELSE r1, LAMBDA r2 :
            [err |-> r2.err, bytes |-> SubSeq(bytes, 7, tell(r2))]))

\* C28: Shop record round-trip.  A shop record read from a chunk and
\* written again unmodified has the flag has_crew, the byte after it, the
\* crew count and the crew entries as the bytes read had them, for every
\* flag, byte and number of entries; the whole chunk is written as read.
C28_ShopRoundTrip ==
    pc = "written" =>
       /\ out.err = NoErr
       /\ CrewSection(getvalue(out)).err = NoErr
       /\ CrewSection(getvalue(out)).bytes = CrewSection(data).bytes
       /\ getvalue(out) = data

\* A chunk with the flag set, the byte after it 7 and no crew entries was
\* read and written: the three bytes 1, 7, 0 have become the one byte 0.
C28_EmptyCrewCollapsed ==
    /\ pc = "written"
    /\ save.shop.has_crew = 1
    /\ save.shop.crew_unknown_zero = 7
    /\ save.shop.available_crew = <<>>
    /\ CrewSection(data).bytes = <<1, 7, 0>>
    /\ CrewSection(getvalue(out)).bytes = <<0>>
    /\ Len(getvalue(out)) = Len(data) - 2

--------------------------------------------------------------------------
(* Properties of the encode pass.                                          *)

\* doc but for its stored skip offset
ButOffset(doc) == [doc EXCEPT !.shops_offset = 0]

\* The skip offset that bytes hold
OffsetIn(bytes) == AtOffset(bytes).val.shops_offset

\* Writing doc once more in the same mode gives the same bytes, starts from
\* nothing the pass before has left, and changes nothing of doc
EncodesAgain(doc, force_string_mode, bytes) ==
    Bind(_prep_write_data(doc, force_string_mode), LAMBDA again :
        /\ again.odf.err = NoErr
        /\ Written_bytes(again.odf) = bytes
        /\ again.self = doc)

\* C29: an encode pass, the one of the constructor as the one of save_to,
\* changes nothing of the document but the stored skip offset, which
\* becomes the offset the written bytes hold; the read-side registry, the
\* retained bytes of the file and the (empty) write-side registry of the
\* document stay as they were; and encoding the document again in the same
\* string mode yields the same bytes.
C29_EncodeRepeatable ==
    /\ [](Constructed /\ pc = "loaded" =>
            /\ ButOffset(save) = ButOffset(Parsed)
            /\ save.shops_offset = OffsetIn(data))
    /\ [][(pc = "loaded" /\ pc' = "saved" /\ out'.odf.err = NoErr) =>
            /\ ButOffset(save') = ButOffset(save)
            /\ save'.string_read_lookup = save.string_read_lookup
            /\ save'.data = save.data
            /\ save'.data = data
            /\ save'.string_write_lookup = EmptyMap
            /\ save'.shops_offset = OffsetIn(Written_bytes(out'.odf))
            /\ EncodesAgain(save', out'.force_string_mode,
                            Written_bytes(out'.odf))]_vars

\* A file with strings and a skippable region has been edited twice and
\* written compressed, and the offset of the document is the one written
C29_Witness ==
    /\ pc = "saved"
    /\ Len(edits) = 2
    /\ out.force_string_mode = COMPRESSED
    /\ out.odf.err = NoErr
    /\ out.odf.string_write_lookup # EmptyMap
    /\ save.string_read_lookup # EmptyMap
    /\ save.shops_offset > 0
    /\ save.shops_offset = OffsetIn(Saved_bytes)
    /\ Saved_bytes # data

--------------------------------------------------------------------------
(* Properties of the checksum specification.                               *)

\* Bytes 5 to 8 of bytes
StoredChecksum(bytes) == SubSeq(bytes, 6, 9)

\* Bytes 5 to 8 of bytes are the CRC-32 of bytes 9 to the end
ChecksumRight(bytes) ==
    /\ Len(bytes) >= 9
    /\ StoredChecksum(bytes) = crc32(SubSeq(bytes, 10, Len(bytes)))

\* C30: a file whose bytes 5 to 8 are not the CRC-32 of its bytes 9 to the
\* end is never loaded: the constructor ends in an error.  The parser does
\* not object to the checksum, it keeps the four bytes as read; when such a
\* file parses and is written for the comparison, the bytes written hold
\* the checksum computed anew, differ from the file and the constructor
\* raises 'Could not reconstruct an identical savefile'.
C30_WrongChecksumRefused ==
    /\ pc \in {"loaded", "saved"} => ChecksumRight(data)
    /\ (pc \in {"loaded", "saved"} /\ edits = <<>>) =>
           save.checksum = StoredChecksum(data)
    /\ (pc = "failed" /\ ~ChecksumRight(data)) =>
          Bind(Parsed, LAMBDA sv :
              sv.err = NoErr =>
                  /\ sv.checksum = StoredChecksum(data)
                  /\ Bind(_prep_write_data(sv, sv.string_storage), LAMBDA p :
                        p.odf.err = NoErr =>
                            /\ ChecksumRight(Written_bytes(p.odf))
                            /\ Written_bytes(p.odf) # data
                            /\ save.err = ReconstructError))

\* A file that differs from a file written in one byte of the checksum
\* alone has been parsed without an error and refused by the comparison
C30_Witness ==
    /\ pc = "failed"
    /\ save.err = ReconstructError
    /\ ~ChecksumRight(data)
    /\ Parsed.err = NoErr
    /\ Parsed.checksum = StoredChecksum(data)
    /\ \E i \in 5..8 : ChecksumRight(Damaged(data, i, 128))

\* A file that differs from a file written in one byte behind the checksum
\* has been parsed without an error and refused by the comparison
C30_ContentChanged ==
    /\ pc = "failed"
    /\ save.err = ReconstructError
    /\ Parsed.err = NoErr
    /\ ChecksumRight(Damaged(data, 13, 255))
==========================================================================
